---- MODULE Spec2Model ----
(***************************************************************************)
(* Deferred relational expression layer of leanframe                       *)
(* (src/leanframe/core/__init__.py : BigFramesExpr, BigFramesExprBuilder). *)
(*                                                                         *)
(* A column expression is modelled by its denotation on the rows of the    *)
(* table it is bound to: a name, a dtype and one value per table row.      *)
(* A table is a row count plus its named columns.  Compiling an expression *)
(* (to_ibis_expr) evaluates select / filter / order_by / drop on that      *)
(* denotation, the way the backend evaluates the generated query.          *)
(***************************************************************************)
EXTENDS Integers, Sequences, FiniteSets, TLC

VARIABLES
    expr,       \* the current BigFramesExpr (receiver of the next call)
    prev,       \* the receiver of the last call, as it was before the call
    recv,       \* the receiver object of the last call, as it is after the call
    args,       \* the expressions passed to the last call (concat operands)
    lastOp,     \* record describing the last call
    hist,       \* names of the calls made so far, oldest first
    guid,       \* leanframe.guid counter: number of names generated so far
    backend,    \* TRUE: the backend sorts NULL as the smallest value (BigQuery)
    fresh,      \* TRUE while every caller-chosen output name was unused
    blocks,     \* the Block objects a caller holds, each referring to a BigFramesExpr
    heap,       \* the BigFramesExpr objects the Blocks refer to, by reference
    handlers    \* NestedHandler._handlers: name and DataFrameHandler, in insertion order

vars == <<expr, prev, recv, args, lastOp, hist, guid, backend, fresh, blocks, heap,
          handlers>>

-----------------------------------------------------------------------------
(* Bounds *)

MaxRows == 3
MaxOps == 3
DefaultEncodingSize == 2

-----------------------------------------------------------------------------
(* Values, columns, tables *)

\* SQL NULL: a marker outside the data domain
NULL == 0 - 999

ORDER_ID_COLUMN == "leanframe_ordering_id"
PREDICATE_COLUMN == "leanframe_predicate"

\* Python None / empty ordering id
NoneId == ""

Max(S) == CHOOSE x \in S : \A y \in S : y <= x
Min2(a, b) == IF a <= b THEN a ELSE b

Col(n, v, t) == [name |-> n, vals |-> v, dtype |-> t]

\* ibis Value.name(n)
Rename(c, n) == [c EXCEPT !.name = n]

NameSeq(cols) == [i \in 1..Len(cols) |-> cols[i].name]
NameSet(cols) == {cols[i].name : i \in 1..Len(cols)}
Distinct(s) == \A i, j \in 1..Len(s) : i # j => s[i] # s[j]

\* {column.get_name(): column for column in cols}[n] : the last one wins
DictGet(cols, n) == cols[Max({i \in 1..Len(cols) : cols[i].name = n})]

\* {**a, **b}[n]
MergedGet(a, b, n) == IF n \in NameSet(b) THEN DictGet(b, n) ELSE DictGet(a, n)

RECURSIVE SeqOfSet(_)
SeqOfSet(S) == IF S = {} THEN <<>>
               ELSE LET x == CHOOSE y \in S : \A z \in S : y <= z
                    IN <<x>> \o SeqOfSet(S \ {x})

\* rows picked out of a column, in the order of rowseq
Pick(c, rowseq) == [c EXCEPT !.vals = [k \in 1..Len(rowseq) |-> c.vals[rowseq[k]]]]

Table(n, cols, g) == [nrows |-> n, cols |-> cols, gen |-> g]

-----------------------------------------------------------------------------
(* Decimal strings: sequences of digits *)

RECURSIVE Digits(_)
Digits(n) == IF n < 10 THEN <<n>> ELSE Digits(n \div 10) \o <<n % 10>>

RECURSIVE Zeros(_)
Zeros(k) == IF k <= 0 THEN <<>> ELSE <<0>> \o Zeros(k - 1)

\* str.zfill / LPAD(s, width, '0') for len(s) <= width
ZFill(s, width) == Zeros(width - Len(s)) \o s

StrLess(x, y) ==
    \/ \E k \in 1..Min2(Len(x), Len(y)) :
          /\ x[k] < y[k]
          /\ \A m \in 1..(k - 1) : x[m] = y[m]
    \/ /\ Len(x) < Len(y)
       /\ \A m \in 1..Len(x) : x[m] = y[m]

-----------------------------------------------------------------------------
(* leanframe.core.ordering : OrderingColumnReference, ExpressionOrdering *)

OrderingColumnReference(column_id, direction, na_last) ==
    [column_id |-> column_id, direction |-> direction, na_last |-> na_last]

\* OrderingColumnReference(column_id) with the default direction and null placement
DefaultRef(column_id) == OrderingColumnReference(column_id, "ASC", TRUE)

ExpressionOrdering(value_columns, ordering_id, is_sequential, encoding_size) ==
    [ordering_value_columns |-> value_columns,
     ordering_id |-> ordering_id,
     is_sequential |-> is_sequential,
     ordering_encoding_size |-> encoding_size]

with_is_sequential(o, is_sequential) == [o EXCEPT !.is_sequential = is_sequential]

\* replaces the value keys and keeps the ordering id; the id then no longer
\* reflects the row order, so the result is not sequential
with_ordering_columns(o, value_columns) ==
    [o EXCEPT !.ordering_value_columns = value_columns, !.is_sequential = FALSE]

with_name(ref, new_name) == [ref EXCEPT !.column_id = new_name]

order_id_defined(o) == o.ordering_id # NoneId

all_ordering_columns(o) ==
    IF order_id_defined(o)
    THEN o.ordering_value_columns \o <<DefaultRef(o.ordering_id)>>
    ELSE o.ordering_value_columns

\* leanframe.guid.generate_guid(prefix): the n-th generated name
generate_guid(prefix, n) == prefix \o ToString(n)

-----------------------------------------------------------------------------
(* Backend evaluation of sort keys *)

IsNull(c, i) == IF c.dtype = "str" THEN FALSE ELSE c.vals[i] = NULL

\* column.isnull()
IsNullCol(c) == Col("isnull", [i \in 1..Len(c.vals) |-> IF IsNull(c, i) THEN 1 ELSE 0], "int")

\* native comparison of two rows on one ascending key; nullsSmall is the
\* backend's own placement of NULL
NativeCmp(c, i, j, nullsSmall) ==
    IF c.dtype = "str"
    THEN IF StrLess(c.vals[i], c.vals[j]) THEN 0 - 1
         ELSE IF StrLess(c.vals[j], c.vals[i]) THEN 1 ELSE 0
    ELSE IF c.vals[i] = c.vals[j] THEN 0
         ELSE IF c.vals[i] = NULL THEN (IF nullsSmall THEN 0 - 1 ELSE 1)
         ELSE IF c.vals[j] = NULL THEN (IF nullsSmall THEN 1 ELSE 0 - 1)
         ELSE IF c.vals[i] < c.vals[j] THEN 0 - 1 ELSE 1

\* ibis.asc(col) / ibis.desc(col) as evaluated by the backend
KeyCmp(key, i, j, nullsSmall) ==
    IF key.asc THEN NativeCmp(key.col, i, j, nullsSmall)
    ELSE 0 - NativeCmp(key.col, i, j, nullsSmall)

\* ORDER BY keys: row i sorts strictly before row j
Before(keys, i, j, nullsSmall) ==
    \E k \in 1..Len(keys) :
        /\ KeyCmp(keys[k], i, j, nullsSmall) = 0 - 1
        /\ \A m \in 1..(k - 1) : KeyCmp(keys[m], i, j, nullsSmall) = 0

RECURSIVE Perms(_)
Perms(S) == IF S = {} THEN {<<>>}
            ELSE UNION {{<<x>> \o p : p \in Perms(S \ {x})} : x \in S}

\* every row order the backend may return for ORDER BY keys over the rows S
SortOrders(keys, S, nullsSmall) ==
    IF \A i, j \in S : i # j => (Before(keys, i, j, nullsSmall) \/ Before(keys, j, i, nullsSmall))
    THEN {[k \in 1..Cardinality(S) |->
             CHOOSE r \in S : Cardinality({j \in S : Before(keys, j, r, nullsSmall)}) = k - 1]}
    ELSE {p \in Perms(S) :
             \A a, b \in 1..Len(p) : a < b => ~Before(keys, p[b], p[a], nullsSmall)}

PosIn(p, r) == CHOOSE k \in 1..Len(p) : p[k] = r

-----------------------------------------------------------------------------
(* _convert_ordering_to_table_values, _reduce_predicate_list *)

\* variant: the key alone, no is-null key
ConvertOne_plain(column, ordering_col) ==
    <<[col |-> column, asc |-> (ordering_col.direction = "ASC")]>>

ConvertOne(column, ordering_col) ==
    LET ordering_value == [col |-> column, asc |-> (ordering_col.direction = "ASC")]
    IN  IF (~ordering_col.na_last) /\ (ordering_col.direction # "ASC")
        THEN <<[col |-> IsNullCol(column), asc |-> FALSE], ordering_value>>
        ELSE IF ordering_col.na_last /\ (ordering_col.direction = "ASC")
        THEN <<[col |-> IsNullCol(column), asc |-> TRUE], ordering_value>>
        ELSE <<ordering_value>>

RECURSIVE _convert_ordering_to_table_values(_, _)
_convert_ordering_to_table_values(value_lookup, ordering_columns) ==
    IF ordering_columns = <<>> THEN <<>>
    ELSE ConvertOne(DictGet(value_lookup, Head(ordering_columns).column_id),
                    Head(ordering_columns))
         \o _convert_ordering_to_table_values(value_lookup, Tail(ordering_columns))

\* value_lookup[ordering_col.column_id] raises KeyError
ConvertRaises(value_lookup, ordering_columns) ==
    \E k \in 1..Len(ordering_columns) :
        ordering_columns[k].column_id \notin NameSet(value_lookup)

\* SQL three-valued AND on 1 / 0 / NULL
And3(x, y) == IF x = 0 \/ y = 0 THEN 0
              ELSE IF x = NULL \/ y = NULL THEN NULL ELSE 1

AndCol(p, q) == Col(p.name, [i \in 1..Len(p.vals) |-> And3(p.vals[i], q.vals[i])], "bool")

RECURSIVE ReduceFrom(_, _)
ReduceFrom(acc, rest) == IF rest = <<>> THEN acc
                         ELSE ReduceFrom(AndCol(acc, Head(rest)), Tail(rest))

\* variant: only the last predicate is kept
_reduce_predicate_list_last(predicate_list) == predicate_list[Len(predicate_list)]

\* defined for a non-empty list; the empty list raises ValueError
_reduce_predicate_list(predicate_list) ==
    IF Len(predicate_list) = 1 THEN predicate_list[1]
    ELSE ReduceFrom(Head(predicate_list), Tail(predicate_list))

-----------------------------------------------------------------------------
(* BigFramesExpr and BigFramesExprBuilder *)

BigFramesExpr(table, columns, meta_columns, ordering, predicates) ==
    [table |-> table, columns |-> columns, meta_columns |-> meta_columns,
     ordering |-> ordering, predicates |-> predicates]

\* ExpressionOrdering() : no keys, no ordering id
EmptyOrdering == ExpressionOrdering(<<>>, NoneId, FALSE, DefaultEncodingSize)

\* BigFramesExpr(session, table) : columns is None, ordering is None
ExprOfTable(table) == BigFramesExpr(table, table.cols, <<>>, EmptyOrdering, <<>>)

\* BigFramesExpr(session, table, ordering=ordering) : columns is None
ExprOfTableOrdered(table, ordering) ==
    BigFramesExpr(table,
                  SelectSeq(table.cols, LAMBDA c : c.name # ordering.ordering_id),
                  <<>>, ordering, <<>>)

column_names(self) == NameSet(self.columns)
meta_column_names(self) == NameSet(self.meta_columns)

get_column(self, key) == DictGet(self.columns, key)
get_column_raises(self, key) == key \notin column_names(self)

get_any_column(self, key) == MergedGet(self.columns, self.meta_columns, key)
get_any_column_raises(self, key) == key \notin (column_names(self) \cup meta_column_names(self))

_get_meta_column(self, key) == DictGet(self.meta_columns, key)
_get_meta_column_raises(self, key) == key \notin meta_column_names(self)

\* the builder holds copies (list(...)) of the receiver's tuples; owner is the
\* receiver object, shared tells whether the builder's lists are the
\* receiver's own sequence objects
\* variant: the builder keeps the receiver's own list objects
builder_sharing(self) ==
    [table |-> self.table, columns |-> self.columns, meta_columns |-> self.meta_columns,
     ordering |-> self.ordering, predicates |-> self.predicates,
     owner |-> self, shared |-> TRUE]

builder(self) ==
    [table |-> self.table, columns |-> self.columns, meta_columns |-> self.meta_columns,
     ordering |-> self.ordering, predicates |-> self.predicates,
     owner |-> self, shared |-> FALSE]

build(b) == BigFramesExpr(b.table, b.columns, b.meta_columns, b.ordering, b.predicates)

InsertAt(s, index, x) ==
    LET k == Min2(index, Len(s))
    IN  SubSeq(s, 1, k) \o <<x>> \o SubSeq(s, k + 1, Len(s))

\* expr.columns.insert(index, column) : in-place mutation of the builder's list
ListInsert(b, index, column) ==
    IF b.shared
    THEN [b EXCEPT !.columns = InsertAt(@, index, column),
                   !.owner.columns = InsertAt(@, index, column)]
    ELSE [b EXCEPT !.columns = InsertAt(@, index, column)]

reduced_predicate(self) ==
    IF Len(self.predicates) > 0
    THEN <<Rename(_reduce_predicate_list(self.predicates), PREDICATE_COLUMN)>>
    ELSE <<>>

BaseRows(self) == 1..self.table.nrows

\* rows kept by table.filter(table[PREDICATE_COLUMN])
Survivors(self) ==
    IF Len(self.predicates) = 0 THEN BaseRows(self)
    ELSE {i \in BaseRows(self) : reduced_predicate(self)[1].vals[i] = 1}

\* BigFramesExpr.ordering property
ordering_values(self) ==
    _convert_ordering_to_table_values(self.columns \o self.meta_columns,
                                      all_ordering_columns(self.ordering))

ordering_values_raises(self) ==
    ConvertRaises(self.columns \o self.meta_columns, all_ordering_columns(self.ordering))

-----------------------------------------------------------------------------
(* BigFramesExpr.to_ibis_expr *)

OffsetModes == {"offset_col", "ordered_col"}
OrderingModes == {"order_by", "ordered_col", "offset_col", "expose_metadata", "unordered"}

RefIds(refs) == [k \in 1..Len(refs) |-> refs[k].column_id]

hidden_ordering_columns(self) ==
    RefIds(SelectSeq(all_ordering_columns(self.ordering),
                     LAMBDA c : c.column_id \notin column_names(self)))

\* variant: both modes generate offsets whenever the expression is not sequential
NeedsRowNumber_not_sequential(self, ordering_mode) ==
    ordering_mode \in {"offset_col", "ordered_col"} /\ ~self.ordering.is_sequential

\* "Generate offsets if current ordering id semantics are not sufficiently strict"
NeedsRowNumber(self, ordering_mode) ==
    \/ ordering_mode = "offset_col" /\ ~self.ordering.is_sequential
    \/ ordering_mode = "ordered_col" /\ ~order_id_defined(self.ordering)

\* partition of a row under window.group_by(reduced_predicate)
Partition(self, i) ==
    IF Len(self.predicates) = 0 THEN BaseRows(self)
    ELSE {j \in BaseRows(self) :
            reduced_predicate(self)[1].vals[j] = reduced_predicate(self)[1].vals[i]}

\* ibis.row_number().over(window): zero-based; perm is the order the backend
\* gives the rows that pass the filter
RowNumberCol(self, order_col_name, perm) ==
    Col(order_col_name,
        [i \in 1..self.table.nrows |->
            IF i \in Survivors(self) THEN PosIn(perm, i) - 1
            ELSE Cardinality({j \in Partition(self, i) :
                    \/ Before(ordering_values(self), j, i, backend)
                    \/ (~Before(ordering_values(self), i, j, backend) /\ j < i)})],
        "int")

\* variant: the unordered mode projects the meta columns as well
SelectedColumns_unordered_meta(self, ordering_mode, order_col_name, perm) ==
    self.columns \o reduced_predicate(self) \o
    (IF ordering_mode \in OffsetModes
     THEN IF NeedsRowNumber(self, ordering_mode)
          THEN <<RowNumberCol(self, order_col_name, perm)>>
          ELSE <<Rename(_get_meta_column(self, self.ordering.ordering_id), order_col_name)>>
     ELSE IF ordering_mode = "order_by"
     THEN [k \in 1..Len(hidden_ordering_columns(self)) |->
             _get_meta_column(self, hidden_ordering_columns(self)[k])]
     ELSE self.meta_columns)

SelectedColumns(self, ordering_mode, order_col_name, perm) ==
    self.columns \o reduced_predicate(self) \o
    (IF ordering_mode \in OffsetModes
     THEN IF NeedsRowNumber(self, ordering_mode)
          THEN <<RowNumberCol(self, order_col_name, perm)>>
          ELSE <<Rename(_get_meta_column(self, self.ordering.ordering_id), order_col_name)>>
     ELSE IF ordering_mode = "order_by"
     THEN [k \in 1..Len(hidden_ordering_columns(self)) |->
             _get_meta_column(self, hidden_ordering_columns(self)[k])]
     ELSE IF ordering_mode = "expose_metadata" THEN self.meta_columns
     ELSE <<>>)

\* the call raises (ValueError from _get_meta_column or the "Should not be
\* possible" branch, KeyError from the ordering lookup, duplicate names in select)
to_ibis_expr_raises(self, ordering_mode, order_col_name) ==
    \/ /\ ordering_mode \in OffsetModes
       /\ NeedsRowNumber(self, ordering_mode)
       /\ ordering_values_raises(self)
    \/ /\ ordering_mode \in OffsetModes
       /\ ~NeedsRowNumber(self, ordering_mode)
       /\ \/ self.ordering.ordering_id = NoneId
          \/ _get_meta_column_raises(self, self.ordering.ordering_id)
    \/ /\ ordering_mode = "order_by"
       /\ \E k \in 1..Len(hidden_ordering_columns(self)) :
             _get_meta_column_raises(self, hidden_ordering_columns(self)[k])
    \/ ~Distinct(NameSeq(SelectedColumns(self, ordering_mode, order_col_name,
                                         SeqOfSet(Survivors(self)))))

\* sort keys of table.order_by(...) : looked up by name in the selected table
OrderByKeys(self) ==
    _convert_ordering_to_table_values(
        SelectSeq(SelectedColumns(self, "order_by", ORDER_ID_COLUMN, <<>>),
                  LAMBDA c : c.name # PREDICATE_COLUMN),
        all_ordering_columns(self.ordering))

\* the row orders the backend may produce for this call
RowOrders(self, ordering_mode) ==
    IF ordering_mode = "order_by"
    THEN SortOrders(OrderByKeys(self), Survivors(self), backend)
    ELSE IF ordering_mode \in OffsetModes /\ NeedsRowNumber(self, ordering_mode)
    THEN SortOrders(ordering_values(self), Survivors(self), backend)
    ELSE {SeqOfSet(Survivors(self))}

\* variant: the hidden ordering columns are not dropped after the sort
to_ibis_expr_keeps_hidden(self, ordering_mode, order_col_name, perm) ==
    LET columns == SelectedColumns(self, ordering_mode, order_col_name, perm)
        rowseq == IF ordering_mode = "order_by" THEN perm ELSE SeqOfSet(Survivors(self))
        kept == SelectSeq(columns, LAMBDA c :
                    Len(self.predicates) > 0 => c.name # PREDICATE_COLUMN)
    IN  IF columns = <<>> THEN Table(0, <<>>, self.table.gen + 1)
        ELSE Table(Len(rowseq), [k \in 1..Len(kept) |-> Pick(kept[k], rowseq)],
                   self.table.gen + 1)

to_ibis_expr(self, ordering_mode, order_col_name, perm) ==
    LET columns == SelectedColumns(self, ordering_mode, order_col_name, perm)
        rowseq == IF ordering_mode = "order_by" THEN perm ELSE SeqOfSet(Survivors(self))
        kept == SelectSeq(columns, LAMBDA c :
                    /\ (Len(self.predicates) > 0 => c.name # PREDICATE_COLUMN)
                    /\ (ordering_mode = "order_by" =>
                          \A k \in 1..Len(hidden_ordering_columns(self)) :
                             c.name # hidden_ordering_columns(self)[k]))
    IN  IF columns = <<>> THEN Table(0, <<>>, self.table.gen + 1)
        ELSE Table(Len(rowseq), [k \in 1..Len(kept) |-> Pick(kept[k], rowseq)],
                   self.table.gen + 1)

\* the default compile, to_ibis_expr(), fails
CompileRaises(self) == to_ibis_expr_raises(self, "order_by", ORDER_ID_COLUMN)

-----------------------------------------------------------------------------
(* Column algebra *)

insert_column(self, index, column) ==
    build(ListInsert(builder(self), index, column))

\* the receiver object once insert_column has returned
insert_column_receiver(self, index, column) ==
    ListInsert(builder(self), index, column).owner

\* variant: the column is copied to the meta columns, the ordering key keeps its name
_hide_column_keeps_key(self, column_id, new_name) ==
    build([builder(self) EXCEPT
             !.meta_columns = self.meta_columns
                                \o <<Rename(get_column(self, column_id), new_name)>>])

\* variant: the meta column keeps the name of the value column
_hide_column_same_name(self, column_id, new_name) ==
    build([builder(self) EXCEPT
             !.meta_columns = self.meta_columns \o <<get_column(self, column_id)>>,
             !.ordering = with_ordering_columns(self.ordering,
                                                self.ordering.ordering_value_columns)])

_hide_column(self, column_id, new_name) ==
    LET ovc == self.ordering.ordering_value_columns
        ordering_columns ==
            [k \in 1..Len(ovc) |->
                IF ovc[k].column_id # column_id THEN ovc[k]
                ELSE with_name(ovc[k], new_name)]
    IN  build([builder(self) EXCEPT
                 !.meta_columns = self.meta_columns
                                    \o <<Rename(get_column(self, column_id), new_name)>>,
                 !.ordering = with_ordering_columns(self.ordering, ordering_columns)])

OrderingValueIds(self) ==
    {self.ordering.ordering_value_columns[k].column_id :
        k \in 1..Len(self.ordering.ordering_value_columns)}

\* the names drop_columns has to hide: set(columns) & ordering value column ids
DropHideSet(self, columns) == columns \cap OrderingValueIds(self)

\* "for ordering_column in ...: expr = self._hide_column(ordering_column)"
\* todo is the iteration order of the set, g the number of names generated so far
RECURSIVE DropHideLoop(_, _, _, _)
DropHideLoop(self, expr0, todo, g) ==
    IF todo = <<>> THEN expr0
    ELSE DropHideLoop(self,
                      _hide_column(self, Head(todo), generate_guid("leanframe_meta_", g + 1)),
                      Tail(todo), g + 1)

drop_columns(self, columns, todo, g) ==
    LET expr0 == DropHideLoop(self, self, todo, g)
        remain_cols == SelectSeq(expr0.columns, LAMBDA column : column.name \notin columns)
    IN  build([builder(expr0) EXCEPT !.columns = remain_cols])

\* the names projection hides: every value column the ordering depends on
ProjectionHideSet(self) == column_names(self) \cap OrderingValueIds(self)

\* "for ordering_column in ...: expr = expr._hide_column(ordering_column)"
RECURSIVE ProjectionHideLoop(_, _, _)
ProjectionHideLoop(expr0, todo, g) ==
    IF todo = <<>> THEN expr0
    ELSE ProjectionHideLoop(
             _hide_column(expr0, Head(todo), generate_guid("leanframe_meta_", g + 1)),
             Tail(todo), g + 1)

projection(self, columns, todo, g) ==
    build([builder(ProjectionHideLoop(self, todo, g)) EXCEPT !.columns = columns])

\* variant: the column is replaced where it stands, nothing is hidden
_set_or_replace_by_id_in_place(self, id, value, g) ==
    IF id \in column_names(self)
    THEN build([builder(self) EXCEPT
                  !.columns = [k \in 1..Len(self.columns) |->
                                  IF self.columns[k].name = id THEN Rename(value, id)
                                  ELSE self.columns[k]]])
    ELSE build([builder(self) EXCEPT !.columns = self.columns \o <<Rename(value, id)>>])

_set_or_replace_by_id(self, id, value, g) ==
    LET expr0 == IF id \in column_names(self)
                 THEN drop_columns(self, {id},
                                   IF DropHideSet(self, {id}) = {} THEN <<>> ELSE <<id>>, g)
                 ELSE self
    IN  build([builder(expr0) EXCEPT !.columns = expr0.columns \o <<Rename(value, id)>>])

\* number of names _set_or_replace_by_id generates
SetOrReplaceGuids(self, id) ==
    IF id \in column_names(self) THEN Cardinality(DropHideSet(self, {id})) ELSE 0

-----------------------------------------------------------------------------
(* leanframe.operations : pointwise operators *)

UnaryOps == {"neg"}
BinaryOps == {"add"}

UnaryVal(op, x) ==
    IF op = "notnull" THEN (IF x = NULL THEN 0 ELSE 1)
    ELSE IF x = NULL THEN NULL ELSE 0 - x

BinaryVal(op, x, y) == IF x = NULL \/ y = NULL THEN NULL ELSE x + y

\* op._as_ibis(column)
UnaryAsIbis(op, c) ==
    Col(c.name, [i \in 1..Len(c.vals) |-> UnaryVal(op, c.vals[i])],
        IF op = "notnull" THEN "bool" ELSE c.dtype)

\* op(left, right)
BinaryAsIbis(op, l, r) ==
    Col(l.name, [i \in 1..Len(l.vals) |-> BinaryVal(op, l.vals[i], r.vals[i])], l.dtype)

project_unary_op(self, column_name, op, output_name, g) ==
    _set_or_replace_by_id(self, output_name,
        Rename(UnaryAsIbis(op, get_column(self, column_name)), output_name), g)

project_binary_op(self, left_column_id, right_column_id, op, output_column_id, g) ==
    _set_or_replace_by_id(self, output_column_id,
        Rename(BinaryAsIbis(op, get_column(self, left_column_id),
                                get_column(self, right_column_id)),
               output_column_id), g)

-----------------------------------------------------------------------------
(* Rows: filter, order_by, offsets *)

\* variant: the ordering is left as it is
filter_keeps_sequential(self, predicate) ==
    build([builder(self) EXCEPT !.predicates = self.predicates \o <<predicate>>])

\* "if expr.ordering:" holds for every receiver: the builder always carries an
\* ExpressionOrdering object
filter(self, predicate) ==
    build([builder(self) EXCEPT
             !.ordering = with_is_sequential(self.ordering, FALSE),
             !.predicates = self.predicates \o <<predicate>>])

\* variant: the keys are replaced and is_sequential stays as it was
order_by_keeps_sequential(self, by) ==
    build([builder(self) EXCEPT !.ordering.ordering_value_columns = by])

order_by(self, by) ==
    build([builder(self) EXCEPT !.ordering = with_ordering_columns(self.ordering, by)])

\* the offsets property: the ordering id column of a sequential expression
offsets(self) == _get_meta_column(self, self.ordering.ordering_id)

offsets_raises(self) ==
    \/ ~self.ordering.is_sequential
    \/ _get_meta_column_raises(self, self.ordering.ordering_id)

\* keys of the _column_names dict, in insertion order
RECURSIVE DictKeys(_)
DictKeys(names) ==
    IF names = <<>> THEN <<>>
    ELSE <<Head(names)>> \o DictKeys(SelectSeq(Tail(names), LAMBDA n : n # Head(names)))

\* the expression project_offsets builds from a compile in the given mode
OffsetsFrom(self, ordering_mode, perm) ==
    LET table == to_ibis_expr(self, ordering_mode, ORDER_ID_COLUMN, perm)
        keys == DictKeys(NameSeq(self.columns))
    IN  BigFramesExpr(
            table,
            [k \in 1..Len(keys) |-> DictGet(table.cols, keys[k])],
            <<DictGet(table.cols, ORDER_ID_COLUMN)>>,
            ExpressionOrdering(<<>>, ORDER_ID_COLUMN, TRUE, DefaultEncodingSize),
            <<>>)

\* variant: compiles under ordered_col, which keeps an ordering id that exists
project_offsets_ordered_col(self, perm) ==
    IF self.ordering.is_sequential THEN self
    ELSE OffsetsFrom(self, "ordered_col", perm)

\* variant: no shortcut for a sequential receiver
project_offsets_always(self, perm) ==
    OffsetsFrom(self, "offset_col",
                IF self.ordering.is_sequential THEN SeqOfSet(Survivors(self)) ELSE perm)

\* variant: the new expression is not marked sequential
project_offsets_not_sequential(self, perm) ==
    IF self.ordering.is_sequential THEN self
    ELSE [OffsetsFrom(self, "offset_col", perm) EXCEPT !.ordering.is_sequential = FALSE]

project_offsets(self, perm) ==
    IF self.ordering.is_sequential THEN self
    ELSE OffsetsFrom(self, "offset_col", perm)

project_offsets_raises(self) ==
    /\ ~self.ordering.is_sequential
    /\ to_ibis_expr_raises(self, "offset_col", ORDER_ID_COLUMN)

\* the row orders project_offsets may number the rows in
OffsetOrders(self) ==
    IF self.ordering.is_sequential THEN {<<>>} ELSE RowOrders(self, "offset_col")

RECURSIVE promote_offsets(_, _, _)
promote_offsets(self, value_col_id, perm) ==
    IF (~self.ordering.is_sequential) \/ (self.ordering.ordering_id = NoneId)
    THEN promote_offsets(project_offsets(self, perm), value_col_id, perm)
    ELSE build([builder(self) EXCEPT
                  !.columns = <<Rename(_get_meta_column(self, self.ordering.ordering_id),
                                       value_col_id)>> \o self.columns])

\* the number of times promote_offsets calls itself before it returns, counted
\* up to limit: limit stands for a recursion that has not ended by then
RECURSIVE promote_offsets_calls(_, _, _)
promote_offsets_calls(self, perm, limit) ==
    IF limit = 0 THEN 0
    ELSE IF (~self.ordering.is_sequential) \/ (self.ordering.ordering_id = NoneId)
    THEN 1 + promote_offsets_calls(project_offsets(self, perm), perm, limit - 1)
    ELSE 0

promote_offsets_raises(self) ==
    IF (~self.ordering.is_sequential) \/ (self.ordering.ordering_id = NoneId)
    THEN project_offsets_raises(self)
    ELSE _get_meta_column_raises(self, self.ordering.ordering_id)

-----------------------------------------------------------------------------
(* project_window_op, _ibis_window_from_spec, _reproject_to_table *)

\* preceding / following is None
NoBound == 0 - 1

WindowSpec(grouping_keys, ordering, preceding, following, min_periods) ==
    [grouping_keys |-> grouping_keys, ordering |-> ordering, preceding |-> preceding,
     following |-> following, min_periods |-> min_periods]

\* leanframe.aggregations : window operators and their skips_nulls attribute
WindowOps == {"sum", "count"}
skips_nulls(op) == op = "sum"

\* variant: the window is not grouped by the pending predicates
_ibis_window_from_spec_no_predicate(self, window_spec) ==
    LET group_by == [k \in 1..Len(window_spec.grouping_keys) |->
                        get_column(self, window_spec.grouping_keys[k])]
    IN  IF window_spec.ordering # <<>>
        THEN [preceding |-> window_spec.preceding, following |-> window_spec.following,
              ordered |-> TRUE,
              order_by |-> _convert_ordering_to_table_values(
                               self.columns \o self.meta_columns, window_spec.ordering)
                           \o ordering_values(self),
              group_by |-> group_by]
        ELSE IF window_spec.following # NoBound \/ window_spec.preceding # NoBound
        THEN [preceding |-> window_spec.preceding, following |-> window_spec.following,
              ordered |-> TRUE, order_by |-> ordering_values(self), group_by |-> group_by]
        ELSE [preceding |-> window_spec.preceding, following |-> window_spec.following,
              ordered |-> FALSE, order_by |-> <<>>, group_by |-> group_by]

_ibis_window_from_spec(self, window_spec) ==
    LET group_by == [k \in 1..Len(window_spec.grouping_keys) |->
                        get_column(self, window_spec.grouping_keys[k])]
                    \o reduced_predicate(self)
    IN  IF window_spec.ordering # <<>>
        THEN [preceding |-> window_spec.preceding, following |-> window_spec.following,
              ordered |-> TRUE,
              order_by |-> _convert_ordering_to_table_values(
                               self.columns \o self.meta_columns, window_spec.ordering)
                           \o ordering_values(self),
              group_by |-> group_by]
        ELSE IF window_spec.following # NoBound \/ window_spec.preceding # NoBound
        THEN [preceding |-> window_spec.preceding, following |-> window_spec.following,
              ordered |-> TRUE, order_by |-> ordering_values(self), group_by |-> group_by]
        ELSE [preceding |-> window_spec.preceding, following |-> window_spec.following,
              ordered |-> FALSE, order_by |-> <<>>, group_by |-> group_by]

_ibis_window_from_spec_raises(self, window_spec) ==
    \/ \E k \in 1..Len(window_spec.grouping_keys) :
          get_column_raises(self, window_spec.grouping_keys[k])
    \/ /\ window_spec.ordering # <<>>
       /\ ConvertRaises(self.columns \o self.meta_columns, window_spec.ordering)
    \/ /\ (window_spec.ordering # <<>> \/ window_spec.following # NoBound
                                       \/ window_spec.preceding # NoBound)
       /\ ordering_values_raises(self)

\* the orders in which the backend may walk the rows of an ordered window
WindowOrders(self, window_spec) ==
    IF _ibis_window_from_spec(self, window_spec).ordered
    THEN SortOrders(_ibis_window_from_spec(self, window_spec).order_by, BaseRows(self), backend)
    ELSE {SeqOfSet(BaseRows(self))}

\* the rows of the frame of row i; perm is the order the backend walks the rows in
WindowFrame(self, window, i, perm) ==
    LET part == {j \in BaseRows(self) :
                    \A k \in 1..Len(window.group_by) :
                        window.group_by[k].vals[j] = window.group_by[k].vals[i]}
        pos(j) == Cardinality({x \in part : PosIn(perm, x) < PosIn(perm, j)})
    IN  IF ~window.ordered THEN part
        ELSE {j \in part :
                /\ (window.preceding = NoBound \/ pos(j) >= pos(i) - window.preceding)
                /\ (window.following = NoBound \/ pos(j) <= pos(i) + window.following)}

RECURSIVE SumVals(_, _)
SumVals(c, S) == IF S = {} THEN 0
                 ELSE LET x == CHOOSE y \in S : TRUE
                      IN c.vals[x] + SumVals(c, S \ {x})

\* count_op._as_ibis(column, window) at row i : number of non-null inputs
WindowCount(self, column, window, i, perm) ==
    Cardinality({j \in WindowFrame(self, window, i, perm) : column.vals[j] # NULL})

\* op._as_ibis(column, window) at row i
WindowVal(self, op, column, window, i, perm) ==
    LET nonnull == {j \in WindowFrame(self, window, i, perm) : column.vals[j] # NULL}
    IN  IF op = "count" THEN Cardinality(nonnull)
        ELSE IF nonnull = {} THEN NULL ELSE SumVals(column, nonnull)

\* variant: the min_periods clause is left out of the case statement
WindowCase_no_min_periods(self, op, column, window_spec, perm) ==
    LET window == _ibis_window_from_spec(self, window_spec)
    IN  Col(column.name,
            [i \in 1..Len(column.vals) |->
                IF skips_nulls(op) /\ column.vals[i] = NULL THEN NULL
                ELSE WindowVal(self, op, column, window, i, perm)],
            "int")

\* the case statement built from the masking clauses
WindowCase(self, op, column, window_spec, perm) ==
    LET window == _ibis_window_from_spec(self, window_spec)
    IN  Col(column.name,
            [i \in 1..Len(column.vals) |->
                IF skips_nulls(op) /\ column.vals[i] = NULL THEN NULL
                ELSE IF window_spec.min_periods # 0
                        /\ WindowCount(self, column, window, i, perm) < window_spec.min_periods
                THEN NULL
                ELSE WindowVal(self, op, column, window, i, perm)],
            "int")

\* variant: the reprojected expression keeps the pending predicates
_reproject_to_table_keeps_predicates(self) ==
    LET table == to_ibis_expr(self, "expose_metadata", self.ordering.ordering_id, <<>>)
        names == DictKeys(NameSeq(self.columns))
        meta_names == DictKeys(NameSeq(self.meta_columns))
    IN  BigFramesExpr(table,
                      [k \in 1..Len(names) |-> DictGet(table.cols, names[k])],
                      [k \in 1..Len(meta_names) |-> DictGet(table.cols, meta_names[k])],
                      self.ordering, self.predicates)

_reproject_to_table(self) ==
    LET table == to_ibis_expr(self, "expose_metadata", self.ordering.ordering_id, <<>>)
        names == DictKeys(NameSeq(self.columns))
        meta_names == DictKeys(NameSeq(self.meta_columns))
    IN  BigFramesExpr(table,
                      [k \in 1..Len(names) |-> DictGet(table.cols, names[k])],
                      [k \in 1..Len(meta_names) |-> DictGet(table.cols, meta_names[k])],
                      self.ordering, <<>>)

_reproject_to_table_raises(self) ==
    to_ibis_expr_raises(self, "expose_metadata", self.ordering.ordering_id)

project_window_op(self, column_name, op, window_spec, output_name, skip_reproject_unsafe, perm, g) ==
    LET window_op == WindowCase(self, op, get_column(self, column_name), window_spec, perm)
        result == _set_or_replace_by_id(self, output_name, window_op, g)
    IN  IF skip_reproject_unsafe THEN result ELSE _reproject_to_table(result)

project_window_op_raises(self, column_name, op, window_spec, output_name, skip_reproject_unsafe) ==
    \/ get_column_raises(self, column_name)
    \/ _ibis_window_from_spec_raises(self, window_spec)
    \/ /\ ~skip_reproject_unsafe
       /\ _reproject_to_table_raises(
              _set_or_replace_by_id(self, output_name, get_column(self, column_name), 0))

-----------------------------------------------------------------------------
(* concat *)

\* math.ceil(math.log(n, 10)) for n >= 1
RECURSIVE CeilLog10From(_, _, _)
CeilLog10From(n, k, pow) == IF pow >= n THEN k ELSE CeilLog10From(n, k + 1, pow * 10)
CeilLog10(n) == CeilLog10From(n, 0, 1)

\* leanframe.core.ordering.stringify_order_id : fixed-width zero-padded string
stringify_order_id(c, length) ==
    Col(c.name,
        [i \in 1..Len(c.vals) |->
            IF c.dtype = "str" THEN ZFill(c.vals[i], length)
            ELSE ZFill(Digits(c.vals[i]), length)],
        "str")

\* variant: the size is computed from the number of the other sources
PrefixSize_without_receiver(others) == CeilLog10(Len(others))

\* math.ceil(math.log(len(other) + 1, 10))
PrefixSize(others) == CeilLog10(Len(others) + 1)

\* variant: the encoding size of the receiver alone
MaxEncodingSize_receiver_only(self, others) == self.ordering.ordering_encoding_size

MaxEncodingSize(self, others) ==
    Max({self.ordering.ordering_encoding_size}
        \cup {others[k].ordering.ordering_encoding_size : k \in 1..Len(others)})

\* variant: the encoded id without the source prefix
ConcatSource_no_prefix(source, i, prefix_size, max_encoding_size, perm) ==
    LET table == to_ibis_expr(source, "ordered_col", ORDER_ID_COLUMN, perm)
        encoded == stringify_order_id(DictGet(table.cols, ORDER_ID_COLUMN), max_encoding_size)
    IN  Table(table.nrows,
              [k \in 1..Len(table.cols) |->
                  IF table.cols[k].name # ORDER_ID_COLUMN THEN table.cols[k]
                  ELSE Col(ORDER_ID_COLUMN, encoded.vals, "str")],
              table.gen + 1)

\* one pass of the loop over enumerate([self, *other]); i is zero-based
ConcatSource(source, i, prefix_size, max_encoding_size, perm) ==
    LET ordering_prefix == ZFill(Digits(i), prefix_size)
        table == to_ibis_expr(source, "ordered_col", ORDER_ID_COLUMN, perm)
        encoded == stringify_order_id(DictGet(table.cols, ORDER_ID_COLUMN), max_encoding_size)
    IN  Table(table.nrows,
              [k \in 1..Len(table.cols) |->
                  IF table.cols[k].name # ORDER_ID_COLUMN THEN table.cols[k]
                  ELSE Col(ORDER_ID_COLUMN,
                           [r \in 1..table.nrows |-> ordering_prefix \o encoded.vals[r]],
                           "str")],
              table.gen + 1)

RECURSIVE SumRows(_)
SumRows(tables) == IF tables = <<>> THEN 0 ELSE Head(tables).nrows + SumRows(Tail(tables))

RECURSIVE ConcatVals(_, _)
ConcatVals(tables, k) ==
    IF tables = <<>> THEN <<>>
    ELSE Head(tables).cols[k].vals \o ConcatVals(Tail(tables), k)

\* ibis.union(*tables) : UNION ALL, columns matched by position
Union(tables) ==
    Table(SumRows(tables),
          [k \in 1..Len(tables[1].cols) |->
              Col(tables[1].cols[k].name, ConcatVals(tables, k), tables[1].cols[k].dtype)],
          Max({tables[t].gen : t \in 1..Len(tables)}) + 1)

\* ibis.union raises when the schemas differ
UnionRaises(tables) ==
    \E t \in 2..Len(tables) :
        \/ NameSeq(tables[t].cols) # NameSeq(tables[1].cols)
        \/ \E k \in 1..Len(tables[1].cols) : tables[t].cols[k].dtype # tables[1].cols[k].dtype

ConcatTables(self, others, perms) ==
    [i \in 1..(Len(others) + 1) |->
        ConcatSource((<<self>> \o others)[i], i - 1, PrefixSize(others),
                     MaxEncodingSize(self, others), perms[i])]

concat(self, others, perms) ==
    IF Len(others) = 0 THEN self
    ELSE LET combined_table == Union(ConcatTables(self, others, perms))
         IN  BigFramesExpr(
                 combined_table,
                 SelectSeq(combined_table.cols, LAMBDA c : c.name # ORDER_ID_COLUMN),
                 <<DictGet(combined_table.cols, ORDER_ID_COLUMN)>>,
                 ExpressionOrdering(<<>>, ORDER_ID_COLUMN, FALSE,
                                    PrefixSize(others) + MaxEncodingSize(self, others)),
                 <<>>)

concat_raises(self, others) ==
    /\ Len(others) > 0
    /\ \/ \E i \in 1..(Len(others) + 1) :
             to_ibis_expr_raises((<<self>> \o others)[i], "ordered_col", ORDER_ID_COLUMN)
       \/ UnionRaises(ConcatTables(self, others,
             [i \in 1..(Len(others) + 1) |->
                 CHOOSE p \in RowOrders((<<self>> \o others)[i], "ordered_col") : TRUE]))

-----------------------------------------------------------------------------
(* apply_limit, aggregate *)

\* variant: the new expression is given the ordering of the receiver
apply_limit_keeps_ordering(self, max_results, perm) ==
    ExprOfTableOrdered(to_ibis_expr(self, "order_by", ORDER_ID_COLUMN,
                                    SubSeq(perm, 1, Min2(max_results, Len(perm)))),
                       self.ordering)

\* table.limit(max_results) of the default compile; perm is the row order of
\* the compile
apply_limit(self, max_results, perm) ==
    ExprOfTable(to_ibis_expr(self, "order_by", ORDER_ID_COLUMN,
                             SubSeq(perm, 1, Min2(max_results, Len(perm)))))

\* the distinct values of a column, smallest first
GroupKeys(c) == SeqOfSet({c.vals[i] : i \in 1..Len(c.vals)})

\* table.group_by(by_column_id).aggregate(sum(col_in).name(col_out)) : one row
\* per distinct key, NULL keys forming a group of their own
GroupBySum(table, by_column_id, col_in, col_out) ==
    LET by == DictGet(table.cols, by_column_id)
        input == DictGet(table.cols, col_in)
        keys == GroupKeys(by)
        group(k) == {i \in 1..table.nrows : by.vals[i] = keys[k] /\ input.vals[i] # NULL}
    IN  Table(Len(keys),
              <<Col(by_column_id, keys, by.dtype),
                Col(col_out,
                    [k \in 1..Len(keys) |->
                        IF group(k) = {} THEN NULL ELSE SumVals(input, group(k))],
                    input.dtype)>>,
              table.gen + 1)

\* the expression aggregate builds before it projects offsets
AggregateFiltered(self, by_column_id, col_in, col_out, dropna, perm) ==
    LET result == GroupBySum(to_ibis_expr(self, "order_by", ORDER_ID_COLUMN, perm),
                             by_column_id, col_in, col_out)
        ordering == ExpressionOrdering(<<DefaultRef(by_column_id)>>, NoneId, FALSE,
                                       DefaultEncodingSize)
        expr0 == ExprOfTableOrdered(result, ordering)
    IN  IF dropna
        THEN filter(expr0, UnaryAsIbis("notnull", get_column(expr0, by_column_id)))
        ELSE expr0

\* variant: the result is returned without the call of project_offsets
aggregate_no_offsets(self, by_column_id, col_in, col_out, dropna, perm) ==
    AggregateFiltered(self, by_column_id, col_in, col_out, dropna, perm)

\* aggregate with one grouping key and one sum
aggregate(self, by_column_id, col_in, col_out, dropna, perm) ==
    LET expr0 == AggregateFiltered(self, by_column_id, col_in, col_out, dropna, perm)
    IN  project_offsets(expr0, CHOOSE p \in RowOrders(expr0, "offset_col") : TRUE)

aggregate_raises(self, by_column_id, col_in, col_out) ==
    \/ CompileRaises(self)
    \/ ~({by_column_id, col_in} \subseteq column_names(self))
    \/ by_column_id = col_out

-----------------------------------------------------------------------------
(* Reading a table: Session._read_gbq_with_ordering / _read_ibis *)

UserNames == {"a", "b"}

\* a session table with its materialised row-number ordering column
ReadTable(avals, bvals) ==
    Table(Len(avals),
          <<Col("a", avals, "int"), Col("b", bvals, "int"),
            Col(ORDER_ID_COLUMN, [i \in 1..Len(avals) |-> i - 1], "int")>>,
          0)

ReadExpr(table) ==
    BigFramesExpr(table,
                  <<DictGet(table.cols, "a"), DictGet(table.cols, "b")>>,
                  <<DictGet(table.cols, ORDER_ID_COLUMN)>>,
                  ExpressionOrdering(<<>>, ORDER_ID_COLUMN, TRUE, DefaultEncodingSize),
                  <<>>)

\* contents of column a in the tables read at the start: distinct values with a
\* NULL, tied values, and mostly NULL
AVals(n) ==
    {[i \in 1..n |-> IF i = 2 THEN NULL ELSE n + 1 - i],
     [i \in 1..n |-> 1 + (i % 2)],
     [i \in 1..n |-> IF i % 2 = 1 THEN NULL ELSE 2]}

BVals(n) == [i \in 1..n |-> IF i = 1 THEN NULL ELSE 1 + (i % 2)]

\* a second table the caller has read, used as concat operand
OtherExpr == ReadExpr(ReadTable(<<2, 1>>, <<NULL, 1>>))

NoOp == [op |-> "read", cols |-> {}, name |-> "", perm |-> <<>>]
Op(op, cols, name, perm) == [op |-> op, cols |-> cols, name |-> name, perm |-> perm]

InitWith(tables, backends) ==
    /\ \E t \in tables : expr = ReadExpr(t)
    /\ prev = expr
    /\ recv = expr
    /\ args = <<>>
    /\ lastOp = NoOp
    /\ hist = <<>>
    /\ guid = 0
    /\ backend \in backends
    /\ fresh = TRUE

Init ==
    /\ InitWith({ReadTable(avals, BVals(MaxRows)) : avals \in AVals(MaxRows)}, {TRUE})
    /\ blocks = <<>>
    /\ heap = <<>>
    /\ handlers = <<>>

-----------------------------------------------------------------------------
(* Calls *)

\* the caller makes at most MaxOps calls
CanCall == Len(hist) < MaxOps

StepArgs(new, r, a, op, g, fr) ==
    /\ expr' = new
    /\ prev' = expr
    /\ recv' = r
    /\ args' = a
    /\ lastOp' = op
    /\ hist' = Append(hist, op.op)
    /\ guid' = g
    /\ fresh' = (fresh /\ fr)
    /\ UNCHANGED <<backend, blocks, heap, handlers>>

Step(new, r, op, g, fr) == StepArgs(new, r, <<>>, op, g, fr)

AllNames(self) == column_names(self) \cup meta_column_names(self)

InsertColumn ==
    /\ CanCall
    /\ \E index \in {0, Len(expr.columns)}, src \in column_names(expr) \cap {"b"},
       nm \in {"idx", "a"} :
        /\ (index = 0 <=> nm = "idx")
        /\ Step(insert_column(expr, index, Rename(get_column(expr, src), nm)),
             insert_column_receiver(expr, index, Rename(get_column(expr, src), nm)),
             Op("insert_column", {nm}, nm, <<>>), guid, nm \notin AllNames(expr))

\* _hide_column raises when a name to hide is no value column
drop_columns_raises(self, columns) ==
    \E c \in DropHideSet(self, columns) : get_column_raises(self, c)

DropColumns ==
    /\ CanCall
    /\ \E columns \in (SUBSET UserNames) \ {{}} :
        /\ ~drop_columns_raises(expr, columns)
        /\ \E todo \in Perms(DropHideSet(expr, columns)) :
              Step(drop_columns(expr, columns, todo, guid), expr,
                   Op("drop_columns", columns, "", todo), guid + Len(todo), TRUE)

\* column selections a caller makes: one column, or all but column a
ProjectionChoices(self) ==
    {S \in SUBSET column_names(self) : Cardinality(S) = 1}
    \cup {column_names(self) \ {"a"}}

Projection ==
    /\ CanCall
    /\ \E keep \in ProjectionChoices(expr) :
        \E todo \in Perms(ProjectionHideSet(expr)) :
            Step(projection(expr, SelectSeq(expr.columns, LAMBDA c : c.name \in keep),
                            todo, guid),
                 expr, Op("projection", keep, "", todo), guid + Len(todo), TRUE)

\* a boolean value aligned with the table: column IS NOT NULL, or column > 1
PredicateOf(self, column_name, kind) ==
    LET c == get_column(self, column_name)
    IN  Col(column_name,
            [i \in 1..Len(c.vals) |->
                IF kind = "notnull" THEN (IF c.vals[i] = NULL THEN 0 ELSE 1)
                ELSE IF c.vals[i] = NULL THEN NULL
                ELSE IF c.vals[i] > 1 THEN 1 ELSE 0],
            "bool")

Filter ==
    /\ CanCall
    /\ \E column_name \in column_names(expr) \cap UserNames, kind \in {"notnull", "gt"} :
        /\ (column_name = "b" => kind = "gt")
        /\ Step(filter(expr, PredicateOf(expr, column_name, kind)), expr,
             Op("filter", {column_name}, kind, <<>>), guid, TRUE)

\* every single ordering key over the user columns
SingleKeys(self) ==
    {<<OrderingColumnReference(c, d, nl)>> :
        c \in column_names(self) \cap UserNames, d \in {"ASC", "DESC"}, nl \in BOOLEAN}

\* ordering keys a caller passes: one key, or two keys on the two user columns
OrderBys(self) ==
    LET U == column_names(self) \cap UserNames
    IN  {by \in SingleKeys(self) :
            \/ by[1] = DefaultRef("a")
            \/ by[1] = OrderingColumnReference("a", "DESC", FALSE)
            \/ by[1] = OrderingColumnReference("b", "ASC", FALSE)}
        \cup (IF U = UserNames
              THEN {<<DefaultRef("a"), DefaultRef("b")>>,
                    <<OrderingColumnReference("b", "DESC", FALSE), DefaultRef("a")>>}
              ELSE {})

OrderBy ==
    /\ CanCall
    /\ \E by \in OrderBys(expr) :
        Step(order_by(expr, by), expr, Op("order_by", {}, "", <<>>), guid, TRUE)

ProjectUnaryOp ==
    /\ CanCall
    /\ \E column_name \in column_names(expr) \cap UserNames, op \in UnaryOps :
        \E nm \in {column_name, "idx"} :
            /\ (nm = "idx" => column_name = "a")
            /\ Step(project_unary_op(expr, column_name, op, nm, guid), expr,
                 Op("project_unary_op", {nm}, nm, <<>>),
                 guid + SetOrReplaceGuids(expr, nm), nm \notin meta_column_names(expr))

ProjectBinaryOp ==
    /\ CanCall
    /\ \E l \in column_names(expr) \cap {"a"}, r \in column_names(expr) \cap {"b"} :
        /\ l # r
        /\ \E nm \in {l, "idx"} :
              Step(project_binary_op(expr, l, r, "add", nm, guid), expr,
                   Op("project_binary_op", {nm}, nm, <<>>),
                   guid + SetOrReplaceGuids(expr, nm), nm \notin meta_column_names(expr))

\* window specifications a caller passes: the whole partition, or the current
\* row and the one before it with at least two inputs
WindowSpecs ==
    {WindowSpec(<<>>, <<>>, NoBound, NoBound, 0),
     WindowSpec(<<>>, <<>>, 1, 0, 2)}

ProjectWindowOp ==
    /\ CanCall
    /\ \E window_spec \in WindowSpecs, nm \in {"a", "idx"}, skip \in BOOLEAN :
        /\ (nm = "idx" => (~skip /\ window_spec.preceding # NoBound))
        /\ (nm = "a" => (skip <=> window_spec.preceding # NoBound))
        /\ ~project_window_op_raises(expr, "a", "sum", window_spec, nm, skip)
        /\ \E perm \in WindowOrders(expr, window_spec) :
              Step(project_window_op(expr, "a", "sum", window_spec, nm, skip, perm, guid),
                   expr, Op("project_window_op", {nm}, nm, perm),
                   guid + SetOrReplaceGuids(expr, nm), nm \notin meta_column_names(expr))

ProjectOffsets ==
    /\ CanCall
    /\ ~project_offsets_raises(expr)
    /\ \E perm \in OffsetOrders(expr) :
          Step(project_offsets(expr, perm), expr,
               Op("project_offsets", {}, "", perm), guid, TRUE)

PromoteOffsets ==
    /\ CanCall
    /\ ~promote_offsets_raises(expr)
    /\ \E perm \in OffsetOrders(expr), nm \in {"idx"} :
          Step(promote_offsets(expr, nm, perm), expr,
               Op("promote_offsets", {nm}, nm, perm), guid, nm \notin AllNames(expr))

ConcatRows(self, others) == self.table.nrows + SumRows([k \in 1..Len(others) |-> others[k].table])

ConcatWith(others) ==
    /\ CanCall
    /\ ConcatRows(expr, others) <= 2 * MaxRows
    /\ ~concat_raises(expr, others)
    /\ \E p1 \in RowOrders(expr, "ordered_col"), p2 \in RowOrders(others[1], "ordered_col") :
          StepArgs(concat(expr, others, <<p1, p2>>), expr, others,
                   Op("concat", {}, "", p1), guid, TRUE)

Concat == ConcatWith(<<OtherExpr>>) \/ ConcatWith(<<prev>>)

ApplyLimit ==
    /\ CanCall
    /\ ~CompileRaises(expr)
    /\ \E max_results \in {MaxRows - 1}, perm \in RowOrders(expr, "order_by") :
          StepArgs(apply_limit(expr, max_results, perm), expr,
                   <<[max_results |-> max_results]>>,
                   Op("apply_limit", {}, "", perm), guid, TRUE)

Aggregate ==
    /\ CanCall
    /\ ~aggregate_raises(expr, "b", "a", "a")
    /\ \E dropna \in BOOLEAN, perm \in RowOrders(expr, "order_by") :
          StepArgs(aggregate(expr, "b", "a", "a", dropna, perm), expr,
                   <<[dropna |-> dropna]>>,
                   Op("aggregate", {"b"}, "a", perm), guid, TRUE)

Next ==
    \/ InsertColumn
    \/ DropColumns
    \/ Projection
    \/ Filter
    \/ OrderBy
    \/ ProjectUnaryOp
    \/ ProjectBinaryOp
    \/ ProjectWindowOp
    \/ ProjectOffsets
    \/ PromoteOffsets
    \/ Concat
    \/ ApplyLimit
    \/ Aggregate

Spec == Init /\ [][Next]_vars

-----------------------------------------------------------------------------
(* Ordering keys on any backend: order_by and filter calls only, the backend   *)
(* sorting NULL either as the smallest or as the largest value                 *)

InitNulls ==
    /\ InitWith({ReadTable(avals, BVals(MaxRows)) : avals \in AVals(MaxRows)}, BOOLEAN)
    /\ blocks = <<>>
    /\ heap = <<>>
    /\ handlers = <<>>

OrderByAny ==
    /\ CanCall
    /\ \E by \in SingleKeys(expr) :
          Step(order_by(expr, by), expr, Op("order_by", {}, "", <<>>), guid, TRUE)

NextNulls ==
    \/ OrderByAny
    \/ Filter

SpecNulls == InitNulls /\ [][NextNulls]_vars

-----------------------------------------------------------------------------
(* Window operations on a longer table: filter, order_by and project_window_op *)
(* calls with every window specification and operator                          *)

\* rows of the tables read for the window calls
WindowRows == 5

InitWindow ==
    /\ InitWith({ReadTable(avals, BVals(WindowRows)) : avals \in AVals(WindowRows)}, {TRUE})
    /\ blocks = <<>>
    /\ heap = <<>>
    /\ handlers = <<>>

\* WindowSpec(preceding=None, following=0, min_periods=3) : a cumulative window
CumulativeSpec == WindowSpec(<<>>, <<>>, NoBound, 0, 3)

WindowCall(column_name, op, window_spec, skip_reproject_unsafe) ==
    [column_name |-> column_name, op |-> op, window_spec |-> window_spec,
     skip_reproject_unsafe |-> skip_reproject_unsafe]

ProjectWindowOpAny ==
    /\ CanCall
    /\ \E window_spec \in WindowSpecs \cup {CumulativeSpec}, op \in WindowOps,
          nm \in {"a", "idx"}, skip \in BOOLEAN :
        /\ (nm = "idx" => ~skip)
        /\ ~project_window_op_raises(expr, "a", op, window_spec, nm, skip)
        /\ \E perm \in WindowOrders(expr, window_spec) :
              StepArgs(project_window_op(expr, "a", op, window_spec, nm, skip, perm, guid),
                       expr, <<WindowCall("a", op, window_spec, skip)>>,
                       Op("project_window_op", {nm}, nm, perm),
                       guid + SetOrReplaceGuids(expr, nm), nm \notin meta_column_names(expr))

NextWindow ==
    \/ Filter
    \/ OrderBy
    \/ ProjectWindowOpAny

SpecWindow == InitWindow /\ [][NextWindow]_vars

\* filters, orderings, window operations and generated offsets on one table
NextPartition ==
    \/ Filter
    \/ OrderBy
    \/ ProjectWindowOpAny
    \/ ProjectOffsets
    \/ ApplyLimit

SpecPartition == InitWindow /\ [][NextPartition]_vars


-----------------------------------------------------------------------------
(* Block: a wrapper holding a reference to a BigFramesExpr and the names of    *)
(* its index columns                                                           *)

\* Block(expr, index_columns) : the expr attribute is a reference into heap
Block(ref, index_columns) == [expr |-> ref, index_columns |-> index_columns]

\* self._expr : the expression object the Block refers to
ExprOf(bs, hp, k) == hp[bs[k].expr]

\* a call that raised, and a call that returned a value
Raises == [raised |-> TRUE]
Returns(value) == [raised |-> FALSE, value |-> value]

\* variant: the new expression is written into the object the Block refers to
Block_set_expr_in_place(bs, hp, k, value) ==
    [blocks |-> bs, heap |-> [hp EXCEPT ![bs[k].expr] = value]]

\* "self.expr = <new expression>" : the Block is bound to the new object
Block_set_expr(bs, hp, k, value) ==
    [blocks |-> [bs EXCEPT ![k].expr = Len(hp) + 1], heap |-> Append(hp, value)]

\* Block._project_value_columns
Block__project_value_columns(self, e, value_columns, todo, g) ==
    IF \E k \in 1..Len(self.index_columns) : get_column_raises(e, self.index_columns[k])
    THEN Raises
    ELSE Returns(projection(e,
                            [k \in 1..Len(self.index_columns) |->
                                get_column(e, self.index_columns[k])] \o value_columns,
                            todo, g))

\* variant: the column is looked up among the value and the meta columns
Block_apply_unary_op_any_column(e, column, op, output_name, g) ==
    IF get_any_column_raises(e, column) THEN Raises
    ELSE Returns(_set_or_replace_by_id(e, output_name,
                     Rename(UnaryAsIbis(op, get_any_column(e, column)), output_name), g))

\* Block.apply_unary_op : the value assigned to self.expr, or the error
Block_apply_unary_op(e, column, op, output_name, g) ==
    IF get_column_raises(e, column) THEN Raises
    ELSE Returns(project_unary_op(e, column, op, output_name, g))

\* Block.project_binary_op
Block_project_binary_op(e, left_column_id, right_column_id, op, output_id, g) ==
    IF get_column_raises(e, left_column_id) \/ get_column_raises(e, right_column_id)
    THEN Raises
    ELSE Returns(project_binary_op(e, left_column_id, right_column_id, op, output_id, g))

\* Block.apply_window_op
Block_apply_window_op(e, column, op, window_spec, output_name, skip_reproject_unsafe, perm, g) ==
    IF project_window_op_raises(e, column, op, window_spec, output_name, skip_reproject_unsafe)
    THEN Raises
    ELSE Returns(project_window_op(e, column, op, window_spec, output_name,
                                   skip_reproject_unsafe, perm, g))

\* Block.filter : the column itself is the condition
Block_filter(e, column_name) ==
    IF get_column_raises(e, column_name) THEN Raises
    ELSE Returns(filter(e, get_column(e, column_name)))

\* the Blocks read at the start: Block(BigFramesExpr(...), [index column]), as
\* read, or sorted by column a (DataFrame.sort_values)
InitBlock ==
    /\ InitWith({ReadTable(avals, BVals(MaxRows)) : avals \in AVals(MaxRows)}, {TRUE})
    /\ blocks = <<Block(1, <<"b">>)>>
    /\ heap \in {<<expr>>, <<order_by(expr, <<DefaultRef("a")>>)>>}
    /\ handlers = <<>>

\* a name no column has
NoSuchColumn == "zz"

\* the names a caller passes for a column: value columns, hidden meta columns
\* and a name no column has
ProbeNames(e) == {"a", "p", NoSuchColumn} \cup meta_column_names(e)

BlockCall(k, columns, raised) == [block |-> k, columns |-> columns, raised |-> raised]

\* a call of a Block method that assigns self.expr when the right-hand side
\* has returned
BlockStep(method, k, columns, outcome, g) ==
    LET st == IF outcome.raised THEN [blocks |-> blocks, heap |-> heap]
              ELSE Block_set_expr(blocks, heap, k, outcome.value)
    IN  /\ blocks' = st.blocks
        /\ heap' = st.heap
        /\ args' = <<BlockCall(k, columns, outcome.raised)>>
        /\ lastOp' = Op(method, columns, "", <<>>)
        /\ hist' = Append(hist, method)
        /\ guid' = (IF outcome.raised THEN guid ELSE g)
        /\ UNCHANGED <<expr, prev, recv, backend, fresh, handlers>>

\* b2 = b1.copy() or b1.copy(value_columns)
BlockCopy ==
    /\ CanCall
    /\ Len(blocks) = 1
    /\ \/ /\ blocks' = Append(blocks, Block(blocks[1].expr, blocks[1].index_columns))
          /\ heap' = heap
          /\ guid' = guid
          /\ args' = <<BlockCall(1, {}, FALSE)>>
       \/ \E todo \in Perms(ProjectionHideSet(ExprOf(blocks, heap, 1))) :
            LET e == ExprOf(blocks, heap, 1)
                outcome == Block__project_value_columns(
                               blocks[1], e,
                               SelectSeq(e.columns, LAMBDA c : c.name = "a"), todo, guid)
            IN  /\ ~outcome.raised
                /\ blocks' = Append(blocks, Block(Len(heap) + 1, blocks[1].index_columns))
                /\ heap' = Append(heap, outcome.value)
                /\ guid' = guid + Len(todo)
                /\ args' = <<BlockCall(1, {"a"}, FALSE)>>
    /\ lastOp' = Op("Block.copy", {}, "", <<>>)
    /\ hist' = Append(hist, "Block.copy")
    /\ UNCHANGED <<expr, prev, recv, backend, fresh, handlers>>

BlockReplaceValueColumns ==
    /\ CanCall
    /\ \E k \in DOMAIN blocks :
        LET e == ExprOf(blocks, heap, k)
        IN  \E todo \in Perms(ProjectionHideSet(e)) :
                BlockStep("Block.replace_value_columns", k, {},
                          Block__project_value_columns(
                              blocks[k], e,
                              SelectSeq(e.columns, LAMBDA c : c.name \notin {"a", "b"}),
                              todo, guid),
                          guid + Len(todo))

BlockApplyUnaryOp ==
    /\ CanCall
    /\ \E k \in DOMAIN blocks :
        LET e == ExprOf(blocks, heap, k)
        IN  \E column \in ProbeNames(e) \ {"p"}, op \in {"neg", "notnull"} :
                LET nm == IF op = "notnull" THEN "p" ELSE "a"
                IN  /\ (op = "notnull" => column = "a")
                    /\ BlockStep("Block.apply_unary_op", k, {column},
                                 Block_apply_unary_op(e, column, op, nm, guid),
                                 guid + SetOrReplaceGuids(e, nm))

BlockProjectBinaryOp ==
    /\ CanCall
    /\ \E k \in DOMAIN blocks :
        LET e == ExprOf(blocks, heap, k)
        IN  \E l \in {"a"}, r \in (ProbeNames(e) \ {"a", "p"}) \cup {"b"} :
                BlockStep("Block.project_binary_op", k, {l, r},
                          Block_project_binary_op(e, l, r, "add", "a", guid),
                          guid + SetOrReplaceGuids(e, "a"))

BlockApplyWindowOp ==
    /\ CanCall
    /\ \E k \in DOMAIN blocks :
        LET e == ExprOf(blocks, heap, k)
        IN  \E column \in ProbeNames(e) \ {"p"}, window_spec \in WindowSpecs :
                LET skip == window_spec.preceding # NoBound
                    failed == project_window_op_raises(e, column, "sum", window_spec,
                                                       "a", skip)
                IN  \E perm \in (IF failed THEN {<<>>} ELSE WindowOrders(e, window_spec)) :
                        BlockStep("Block.apply_window_op", k, {column},
                                  Block_apply_window_op(e, column, "sum", window_spec,
                                                        "a", skip, perm, guid),
                                  guid + SetOrReplaceGuids(e, "a"))

BlockFilter ==
    /\ CanCall
    /\ \E k \in DOMAIN blocks :
        LET e == ExprOf(blocks, heap, k)
        IN  \E column_name \in ProbeNames(e) \ {"a"} :
                BlockStep("Block.filter", k, {column_name},
                          Block_filter(e, column_name), guid)

NextBlock ==
    \/ BlockCopy
    \/ BlockReplaceValueColumns
    \/ BlockApplyUnaryOp
    \/ BlockProjectBinaryOp
    \/ BlockApplyWindowOp
    \/ BlockFilter

SpecBlock == InitBlock /\ [][NextBlock]_vars

-----------------------------------------------------------------------------
(* concat of many sources *)

\* the largest number of expressions passed to one concat call
MaxOthers == 11

\* the largest number of rows of a concat result
MaxConcatRows == 16

\* a one-row table the caller has read
SmallExpr == ReadExpr(ReadTable(<<1>>, <<2>>))

InitConcat ==
    /\ InitWith({ReadTable(<<2, 1>>, <<NULL, 1>>), ReadTable(<<1>>, <<2>>)}, {TRUE})
    /\ blocks = <<>>
    /\ heap = <<>>
    /\ handlers = <<>>

\* expr.concat(others) with n others: one-row tables and, as the last of
\* them, another one-row table, the receiver itself or the expression before it
ConcatMany ==
    /\ CanCall
    /\ \E n \in 1..MaxOthers, which \in {"small", "self", "prev"} :
          LET last == IF which = "self" THEN expr
                      ELSE IF which = "prev" THEN prev ELSE SmallExpr
              others == [i \in 1..n |-> IF i = n THEN last ELSE SmallExpr]
          IN  /\ ConcatRows(expr, others) <= MaxConcatRows
              /\ ~concat_raises(expr, others)
              /\ StepArgs(concat(expr, others,
                                 [i \in 1..(n + 1) |->
                                     CHOOSE q \in RowOrders((<<expr>> \o others)[i],
                                                            "ordered_col") : TRUE]),
                          expr, others, Op("concat", {}, "", <<>>), guid, TRUE)

\* expr.concat([]) returns the receiver
ConcatNone ==
    /\ CanCall
    /\ StepArgs(concat(expr, <<>>, <<>>), expr, <<>>, Op("concat", {}, "", <<>>), guid, TRUE)

NextConcat == ConcatMany \/ ConcatNone \/ Filter \/ ProjectOffsets

SpecConcat == InitConcat /\ [][NextConcat]_vars

-----------------------------------------------------------------------------
(* leanframe.core.frame : DataFrame and DataFrameHandler                       *)

\* a column or struct field of an ibis schema: a leaf, or a struct with fields
Leaf(name) == [name |-> name, struct |-> FALSE, fields |-> <<>>]
StructOf(name, fields) == [name |-> name, struct |-> TRUE, fields |-> fields]

\* DataFrame(data) : the wrapped table, by its schema
DataFrame(columns) == [columns |-> columns]

\* default of the max_depth argument
DefaultMaxDepth == 10

\* ".".join(parts) and "_".join(parts)
RECURSIVE JoinWith(_, _)
JoinWith(parts, sep) ==
    IF Len(parts) = 1 THEN parts[1]
    ELSE parts[1] \o sep \o JoinWith(Tail(parts), sep)

\* the loop over struct_type.fields: the nested_fields entries it adds, in order.
\* field_path is the path of the struct, split at the dots, so that
\* field_path.replace(".", "_") joins its parts with "_"
RECURSIVE _analyze_struct_column_native(_, _, _, _, _)
_analyze_struct_column_native(fields, field_path, root_column, depth, max_depth) ==
    IF depth >= max_depth \/ fields = <<>> THEN <<>>
    ELSE LET f == Head(fields)
             current_path == Append(field_path, f.name)
             here == IF f.struct
                     THEN _analyze_struct_column_native(f.fields, current_path,
                                                        root_column, depth + 1, max_depth)
                     ELSE <<[path |-> JoinWith(current_path, "."),
                             root |-> root_column,
                             extracted_name |->
                                 IF depth = 0 THEN root_column \o "_" \o f.name
                                 ELSE JoinWith(field_path, "_") \o "_" \o f.name]>>
         IN  here \o _analyze_struct_column_native(Tail(fields), field_path, root_column,
                                                   depth, max_depth)

RECURSIVE _introspect_structure(_, _)
_introspect_structure(columns, max_depth) ==
    IF columns = <<>> THEN <<>>
    ELSE (IF Head(columns).struct
          THEN _analyze_struct_column_native(Head(columns).fields, <<Head(columns).name>>,
                                             Head(columns).name, 0, max_depth)
          ELSE <<>>)
         \o _introspect_structure(Tail(columns), max_depth)

\* DataFrameHandler(df, max_depth, table_qualifier)
DataFrameHandler(lf_df, max_depth, table_qualifier) ==
    [original_df |-> lf_df, max_depth |-> max_depth, table_qualifier |-> table_qualifier,
     nested_fields |-> _introspect_structure(lf_df.columns, max_depth),
     struct_columns |-> {lf_df.columns[k].name :
                            k \in {j \in 1..Len(lf_df.columns) : lf_df.columns[j].struct}}]

original_columns(h) == NameSeq(h.original_df.columns)

\* {path: info["extracted_name"]} as the sequence of its items
extracted_fields(h) ==
    [k \in 1..Len(h.nested_fields) |->
        [path |-> h.nested_fields[k].path,
         extracted_name |-> h.nested_fields[k].extracted_name]]

ExtractedPaths(h) == {h.nested_fields[k].path : k \in 1..Len(h.nested_fields)}

\* the select list of extract_nested_fields: the columns that are no struct,
\* then one column per nested field, under its extracted name
ExtractedColumns(h) ==
    SelectSeq(h.original_df.columns, LAMBDA c : c.name \notin h.struct_columns)
    \o [k \in 1..Len(h.nested_fields) |-> Leaf(h.nested_fields[k].extracted_name)]

extract_nested_fields(h) ==
    IF ExtractedColumns(h) # <<>> THEN DataFrame(ExtractedColumns(h))
    ELSE h.original_df

\* ibis_table.select(...) rejects two columns of one name
extract_nested_fields_raises(h) == ~Distinct(NameSeq(ExtractedColumns(h)))

-----------------------------------------------------------------------------
(* leanframe.core.nested_handler : NestedHandler                               *)

Registered(hs) == {hs[k].name : k \in 1..Len(hs)}

\* self._handlers[name]
HandlerOf(hs, name) == hs[CHOOSE k \in 1..Len(hs) : hs[k].name = name].handler

\* self._handlers[name] = df_handler : a dict assignment
DictSet(hs, name, h) ==
    IF name \in Registered(hs)
    THEN [k \in 1..Len(hs) |-> IF hs[k].name = name THEN [name |-> name, handler |-> h]
                               ELSE hs[k]]
    ELSE Append(hs, [name |-> name, handler |-> h])

\* the result of a call: the exception raised ("" when it returns), the value
\* returned, and the _handlers dict after the call
Outcome(raised, value, hs) == [raised |-> raised, value |-> value, handlers |-> hs]

\* variant: there is no check that the name is unused
NestedHandler_add_overwrites(hs, name, df, max_depth, table_qualifier) ==
    Outcome("", DataFrameHandler(df, max_depth, table_qualifier),
            DictSet(hs, name, DataFrameHandler(df, max_depth, table_qualifier)))

NestedHandler_add(hs, name, df, max_depth, table_qualifier) ==
    IF name \in Registered(hs) THEN Outcome("ValueError", <<>>, hs)
    ELSE Outcome("", DataFrameHandler(df, max_depth, table_qualifier),
                 DictSet(hs, name, DataFrameHandler(df, max_depth, table_qualifier)))

NestedHandler_get(hs, name) ==
    IF name \notin Registered(hs) THEN Outcome("KeyError", <<>>, hs)
    ELSE Outcome("", HandlerOf(hs, name), hs)

NestedHandler_remove(hs, name) ==
    IF name \notin Registered(hs) THEN Outcome("KeyError", <<>>, hs)
    ELSE Outcome("", <<>>, SelectSeq(hs, LAMBDA e : e.name # name))

\* fields is None
NoFields == <<"*">>

\* the columns prepare selects from the extraction
NeededCols(h, fields) ==
    LET nested_root_columns == {h.nested_fields[k].root : k \in 1..Len(h.nested_fields)}
        dict == extracted_fields(h)
    IN  SelectSeq(original_columns(h), LAMBDA col : col \notin nested_root_columns)
        \o [k \in 1..Len(fields) |->
              dict[CHOOSE j \in 1..Len(dict) : dict[j].path = fields[k]].extracted_name]

\* the value prepare computes from a registered handler, or the error
PrepareHandler(h, fields, hs) ==
    IF fields = NoFields
    THEN IF extract_nested_fields_raises(h) THEN Outcome("IbisError", <<>>, hs)
         ELSE Outcome("", extract_nested_fields(h), hs)
    ELSE IF \E k \in 1..Len(fields) : fields[k] \notin ExtractedPaths(h)
    THEN Outcome("ValueError", <<>>, hs)
    ELSE IF extract_nested_fields_raises(h) THEN Outcome("IbisError", <<>>, hs)
    ELSE IF \/ ~Distinct(NeededCols(h, fields))
            \/ \E k \in 1..Len(NeededCols(h, fields)) :
                  NeededCols(h, fields)[k] \notin NameSet(extract_nested_fields(h).columns)
    THEN Outcome("IbisError", <<>>, hs)
    ELSE Outcome("", DataFrame([k \in 1..Len(NeededCols(h, fields)) |->
                                   Leaf(NeededCols(h, fields)[k])]), hs)

\* variant: the extraction is kept in the handler as its DataFrame
NestedHandler_prepare_caching(hs, name, fields) ==
    IF name \notin Registered(hs) THEN Outcome("KeyError", <<>>, hs)
    ELSE LET out == PrepareHandler(HandlerOf(hs, name), fields, hs)
         IN  IF out.raised # "" THEN out
             ELSE Outcome("", out.value,
                          DictSet(hs, name,
                                  [HandlerOf(hs, name) EXCEPT !.original_df = out.value]))

NestedHandler_prepare(hs, name, fields) ==
    IF name \notin Registered(hs) THEN Outcome("KeyError", <<>>, hs)
    ELSE PrepareHandler(HandlerOf(hs, name), fields, hs)

\* a value of the tables dict: the name of a DataFrame, or a list of fields
TableName(name) == [kind |-> "str", name |-> name]
TableFields == [kind |-> "list", name |-> ""]

\* "for alias, spec in tables.items()" : the prepared tables, or the first error
RECURSIVE PrepareTables(_, _, _)
PrepareTables(hs, tables, done) ==
    IF tables = <<>> THEN Outcome("", done, hs)
    ELSE IF Head(tables).spec.kind = "list" THEN Outcome("NotImplementedError", <<>>, hs)
    ELSE LET out == NestedHandler_prepare(hs, Head(tables).spec.name, NoFields)
         IN  IF out.raised # "" THEN out
             ELSE PrepareTables(out.handlers, Tail(tables),
                                Append(done, [alias |-> Head(tables).alias,
                                              table |-> out.value]))

\* result_table.join(right_table, ...) : columns of the right table whose name
\* is taken get the suffix _right
JoinColumns(left, right) ==
    left \o [k \in 1..Len(right) |->
                IF right[k].name \in NameSet(left) THEN Leaf(right[k].name \o "_right")
                ELSE right[k]]

\* the join chain over the prepared tables; on is a sequence of conditions
\* (left alias, left column, right alias, right column)
RECURSIVE JoinChain(_, _, _, _)
JoinChain(result_table, rest, on, hs) ==
    IF rest = <<>> THEN Outcome("", DataFrame(result_table), hs)
    ELSE LET right == Head(rest)
             conds == SelectSeq(on, LAMBDA c : c[3] = right.alias)
         IN  IF \E k \in 1..Len(conds) :
                    \/ conds[k][2] \notin NameSet(result_table)
                    \/ conds[k][4] \notin NameSet(right.table.columns)
             THEN Outcome("IbisError", <<>>, hs)
             ELSE IF ~Distinct(NameSeq(JoinColumns(result_table, right.table.columns)))
             THEN Outcome("IbisError", <<>>, hs)
             ELSE JoinChain(JoinColumns(result_table, right.table.columns),
                            Tail(rest), on, hs)

\* NestedHandler.join(tables, on, predicates=None, how)
NestedHandler_join(hs, tables, on, how) ==
    IF tables = <<>> THEN Outcome("ValueError", <<>>, hs)
    ELSE IF on = <<>> /\ how # "cross" THEN Outcome("ValueError", <<>>, hs)
    ELSE LET prepared == PrepareTables(hs, tables, <<>>)
         IN  IF prepared.raised # "" THEN prepared
             ELSE JoinChain(prepared.value[1].table.columns, Tail(prepared.value),
                            on, prepared.handlers)

\* the DataFrames a caller registers: customers with a nested profile, orders
\* without nested columns
CustomersDf ==
    DataFrame(<<Leaf("customer_id"),
                StructOf("profile", <<Leaf("name"),
                                      StructOf("contact", <<Leaf("email")>>)>>)>>)

OrdersDf == DataFrame(<<Leaf("customer_id"), Leaf("amount")>>)

HandlerNames == {"customers", "orders"}

\* NestedHandler() : no DataFrame is registered
InitNested ==
    /\ InitWith({ReadTable(avals, BVals(MaxRows)) : avals \in AVals(MaxRows)}, {TRUE})
    /\ blocks = <<>>
    /\ heap = <<>>
    /\ handlers = <<>>

\* a call of a NestedHandler method on the names given
NestedStep(method, names, extra, outcome) ==
    /\ handlers' = outcome.handlers
    /\ args' = <<[names |-> names, extra |-> extra, raised |-> outcome.raised,
                  value |-> outcome.value]>>
    /\ lastOp' = Op(method, names, "", <<>>)
    /\ hist' = Append(hist, method)
    /\ UNCHANGED <<expr, prev, recv, guid, backend, fresh, blocks, heap>>

NestedAdd ==
    /\ CanCall
    /\ \E name \in HandlerNames, df \in {CustomersDf, OrdersDf},
          max_depth \in {1, DefaultMaxDepth} :
        /\ (df = OrdersDf => max_depth = DefaultMaxDepth)
        /\ NestedStep("add", {name}, [df |-> df, max_depth |-> max_depth],
                      NestedHandler_add(handlers, name, df, max_depth, ""))

NestedGet ==
    /\ CanCall
    /\ \E name \in HandlerNames :
          NestedStep("get", {name}, <<>>, NestedHandler_get(handlers, name))

NestedRemove ==
    /\ CanCall
    /\ \E name \in HandlerNames :
          NestedStep("remove", {name}, <<>>, NestedHandler_remove(handlers, name))

\* the fields a caller asks for: all, a nested field, one that may not have
\* been discovered, and one that does not exist
FieldChoices ==
    {NoFields, <<"profile.name">>, <<"profile.name", "profile.contact.email">>,
     <<"profile.nonexistent.field", "profile.name">>}

NestedPrepare ==
    /\ CanCall
    /\ \E name \in HandlerNames, fields \in FieldChoices :
          NestedStep("prepare", {name}, fields,
                     NestedHandler_prepare(handlers, name, fields))

\* the tables dicts a caller passes
TableChoices ==
    {<<>>,
     <<[alias |-> "c", spec |-> TableName("customers")],
       [alias |-> "o", spec |-> TableName("orders")]>>,
     <<[alias |-> "c", spec |-> TableFields],
       [alias |-> "o", spec |-> TableName("orders")]>>,
     <<[alias |-> "o", spec |-> TableName("orders")]>>}

OnChoices == {<<>>, <<<<"c", "customer_id", "o", "customer_id">>>>}

JoinNames(tables) ==
    {tables[k].spec.name : k \in {j \in 1..Len(tables) : tables[j].spec.kind = "str"}}

NestedJoin ==
    /\ CanCall
    /\ \E tables \in TableChoices, on \in OnChoices, how \in {"inner", "cross"} :
        /\ (how = "cross" => on = <<>>)
        /\ NestedStep("join", JoinNames(tables),
                      [tables |-> tables, on |-> on, how |-> how],
                      NestedHandler_join(handlers, tables, on, how))

NextNested ==
    \/ NestedAdd
    \/ NestedGet
    \/ NestedRemove
    \/ NestedPrepare
    \/ NestedJoin

SpecNested == InitNested /\ [][NextNested]_vars

-----------------------------------------------------------------------------
(* Properties *)

\* every ordering key names a value column or a meta column
KeysResolve(self) ==
    \A k \in 1..Len(all_ordering_columns(self.ordering)) :
        all_ordering_columns(self.ordering)[k].column_id \in AllNames(self)

\* the last call was drop_columns([c]) with c a value column the ordering of
\* the receiver depends on, and the receiver compiles
DroppedOneKey ==
    /\ lastOp.op = "drop_columns"
    /\ Cardinality(lastOp.cols) = 1
    /\ lastOp.cols \subseteq OrderingValueIds(prev)
    /\ ~CompileRaises(prev)

\* the keys of the receiver with column c renamed to m
RenamedKeys(self, c, m) ==
    [k \in 1..Len(self.ordering.ordering_value_columns) |->
        IF self.ordering.ordering_value_columns[k].column_id = c
        THEN OrderingColumnReference(m, self.ordering.ordering_value_columns[k].direction,
                                     self.ordering.ordering_value_columns[k].na_last)
        ELSE self.ordering.ordering_value_columns[k]]

\* C1: drop_columns([c]) of a value column c the ordering depends on keeps c as
\* a meta column under a newly generated name, rewrites the ordering key to
\* that name, and the result compiled under order_by gives the rows in the same
\* order as the receiver did.
C1_DropHidesOrderingColumn ==
    DroppedOneKey =>
        \A c \in lastOp.cols :
            LET m == generate_guid("leanframe_meta_", guid)
            IN  /\ c \notin column_names(expr)
                /\ m \notin AllNames(prev)
                /\ m \in meta_column_names(expr)
                /\ _get_meta_column(expr, m).vals = get_column(prev, c).vals
                /\ expr.ordering.ordering_value_columns = RenamedKeys(prev, c, m)
                /\ ~CompileRaises(expr)
                /\ RowOrders(expr, "order_by") = RowOrders(prev, "order_by")

\* C1 witness: a single ordering column was dropped and the compiled order is
\* not the order of the table rows
C1_Witness ==
    /\ DroppedOneKey
    /\ ~CompileRaises(expr)
    /\ SeqOfSet(Survivors(expr)) \notin RowOrders(expr, "order_by")

\* only these calls were made, after the order_by calls that set the keys
OnlyCalls(ops) == \A k \in 1..Len(hist) : hist[k] \in ops

\* C2: after any sequence of drop_columns, projection, project_unary_op,
\* project_binary_op and filter calls on an ordered expression, every ordering
\* key names a value column or a meta column of the result.
C2_KeysAlwaysResolve ==
    OnlyCalls({"order_by", "drop_columns", "projection", "project_unary_op",
               "project_binary_op", "filter"})
        => KeysResolve(expr)

-----------------------------------------------------------------------------

\* the values 0 .. n-1
Offsets(n) == [k \in 1..n |-> k - 1]

PromotedIdx ==
    /\ lastOp.op = "promote_offsets"
    /\ lastOp.name = "idx"
    /\ "idx" \notin column_names(prev)

\* C3: promote_offsets("idx"), then the projection of idx alone, computed, gives
\* exactly 0 .. N-1 in ascending order, N being the number of rows of the
\* receiver that pass all its filters.
C3_PromotedOffsetsDense ==
    PromotedIdx =>
        \A todo \in Perms(ProjectionHideSet(expr)) :
            LET e == projection(expr, <<get_column(expr, "idx")>>, todo, guid)
            IN  /\ ~CompileRaises(e)
                /\ \A perm \in RowOrders(e, "order_by") :
                      LET t == to_ibis_expr(e, "order_by", ORDER_ID_COLUMN, perm)
                      IN  /\ NameSeq(t.cols) = <<"idx">>
                          /\ t.cols[1].vals = Offsets(Cardinality(Survivors(prev)))

\* C3 witness: two filters, then promote_offsets("idx"), with some rows
\* removed and some left
C3_Witness ==
    /\ PromotedIdx
    /\ hist = <<"filter", "filter", "promote_offsets">>
    /\ Survivors(prev) # {}
    /\ Survivors(prev) # BaseRows(prev)
    /\ 1 \notin Survivors(prev)

FilteredSequential ==
    /\ lastOp.op = "filter"
    /\ prev.ordering.is_sequential

\* C4: filter on a sequential expression returns an expression that is not
\* sequential, whose ordering id is still defined and still a meta column, and
\* whose predicates are those of the receiver followed by the new one.
C4_FilterDemotesSequential ==
    FilteredSequential =>
        /\ ~expr.ordering.is_sequential
        /\ order_id_defined(expr.ordering)
        /\ expr.ordering.ordering_id = prev.ordering.ordering_id
        /\ expr.ordering.ordering_id \in meta_column_names(expr)
        /\ Len(expr.predicates) = Len(prev.predicates) + 1
        /\ SubSeq(expr.predicates, 1, Len(prev.predicates)) = prev.predicates
        /\ \E c \in lastOp.cols :
              expr.predicates[Len(expr.predicates)] = PredicateOf(prev, c, lastOp.name)

\* C4 witness: a sequential expression was filtered and lost a row
C4_Witness ==
    /\ FilteredSequential
    /\ Survivors(expr) # BaseRows(expr)

\* C5: project_offsets applied to the result of project_offsets returns that
\* result unchanged, and the result is sequential with its ordering id among
\* the meta columns.
C5_ProjectOffsetsIdempotent ==
    lastOp.op = "project_offsets" =>
        /\ expr.ordering.is_sequential
        /\ expr.ordering.ordering_id \in meta_column_names(expr)
        /\ ~project_offsets_raises(expr)
        /\ \A perm \in RowOrders(expr, "offset_col") : project_offsets(expr, perm) = expr

\* C5 witness: the first project_offsets had offsets to generate, on a
\* filtered receiver
C5_Witness ==
    /\ lastOp.op = "project_offsets"
    /\ ~prev.ordering.is_sequential
    /\ Len(prev.predicates) > 0

ConcatTwoSequential ==
    /\ lastOp.op = "concat"
    /\ Len(args) = 1
    /\ prev.ordering.is_sequential
    /\ args[1].ordering.is_sequential

\* the sequential ordering id values of an expression
SequentialIds(self) == _get_meta_column(self, self.ordering.ordering_id).vals

\* C6: concat of A and B, both with a sequential ordering id, compiled under
\* ordered_col has |A| + |B| rows, the combined id of every row of A sorts as
\* a string before that of every row of B, and within A and within B the
\* combined ids are ordered as the source ids were.
C6_ConcatOrderingLaw ==
    ConcatTwoSequential =>
        /\ ~to_ibis_expr_raises(expr, "ordered_col", ORDER_ID_COLUMN)
        /\ \A p \in RowOrders(expr, "ordered_col") :
              LET t == to_ibis_expr(expr, "ordered_col", ORDER_ID_COLUMN, p)
                  ids == DictGet(t.cols, ORDER_ID_COLUMN).vals
                  nA == prev.table.nrows
                  nB == args[1].table.nrows
              IN  /\ t.nrows = nA + nB
                  /\ \A i \in 1..nA, j \in (nA + 1)..(nA + nB) : StrLess(ids[i], ids[j])
                  /\ \A i, j \in 1..nA :
                        SequentialIds(prev)[i] < SequentialIds(prev)[j]
                            => StrLess(ids[i], ids[j])
                  /\ \A i, j \in 1..nB :
                        SequentialIds(args[1])[i] < SequentialIds(args[1])[j]
                            => StrLess(ids[nA + i], ids[nA + j])
                  /\ \A k \in 1..Len(prev.columns) :
                        DictGet(t.cols, prev.columns[k].name).vals
                            = prev.columns[k].vals \o args[1].columns[k].vals

\* C6 witness: both sources have at least two rows
C6_Witness ==
    /\ ConcatTwoSequential
    /\ prev.table.nrows >= 2
    /\ args[1].table.nrows >= 2
    /\ Len(prev.columns) >= 1

\* one ordering key on a value column, and the expression compiles
OneKey ==
    /\ Len(expr.ordering.ordering_value_columns) = 1
    /\ expr.ordering.ordering_value_columns[1].column_id \in column_names(expr)
    /\ ~CompileRaises(expr)

\* the compiled rows are in the direction of the key, nulls where the key asks
NullsPlaced ==
    OneKey =>
        LET ref == expr.ordering.ordering_value_columns[1]
            c == get_column(expr, ref.column_id)
        IN  \A p \in RowOrders(expr, "order_by") :
                \A x, y \in 1..Len(p) :
                    x < y =>
                        IF IsNull(c, p[x]) /\ IsNull(c, p[y]) THEN TRUE
                        ELSE IF IsNull(c, p[x]) THEN ~ref.na_last
                        ELSE IF IsNull(c, p[y]) THEN ref.na_last
                        ELSE IF ref.direction = "ASC" THEN c.vals[p[x]] <= c.vals[p[y]]
                        ELSE c.vals[p[x]] >= c.vals[p[y]]

\* C7 (as stated): for each direction and null placement the compiled rows
\* have the nulls where the key asks, whatever the backend's own null order.
C7_NullPlacementAnyBackend == NullsPlaced

\* C7 (amended): on a backend that sorts NULL as the smallest value, for each
\* direction and null placement the compiled rows have the nulls where the key
\* asks.
C7_NullPlacementNullsSmallest == backend => NullsPlaced

\* C7 witness: a descending key with nulls first, on rows with and without a
\* null, on a backend that sorts NULL as the smallest value
C7_Witness ==
    /\ backend
    /\ OneKey
    /\ expr.ordering.ordering_value_columns[1].direction = "DESC"
    /\ ~expr.ordering.ordering_value_columns[1].na_last
    /\ \E i, j \in Survivors(expr) :
          /\ IsNull(get_column(expr, expr.ordering.ordering_value_columns[1].column_id), i)
          /\ ~IsNull(get_column(expr, expr.ordering.ordering_value_columns[1].column_id), j)

\* the last call wrote its output over a value column the ordering of the
\* receiver depends on
OverwroteKey ==
    /\ lastOp.op \in {"project_unary_op", "project_binary_op", "project_window_op"}
    /\ lastOp.name \in OrderingValueIds(prev) \cap column_names(prev)
    /\ ~CompileRaises(prev)

\* the row of the receiver's table a row of the result's table comes from
RowMap ==
    IF expr.table = prev.table THEN [i \in 1..prev.table.nrows |-> i]
    ELSE SeqOfSet(Survivors(prev))

\* C8: project_unary_op, project_binary_op or project_window_op writing over
\* an ordering column leaves the order_by compile sorted by the values the
\* column had before: the result compiles to the same row orders as the receiver.
C8_OverwriteKeepsOrder ==
    OverwroteKey =>
        /\ ~CompileRaises(expr)
        /\ lastOp.name \in column_names(expr)
        /\ {[k \in 1..Len(p) |-> RowMap[p[k]]] : p \in RowOrders(expr, "order_by")}
              = RowOrders(prev, "order_by")

\* C8 witness: a window operation wrote over the ordering column and the
\* compiled order is not the order of the table rows
C8_Witness ==
    /\ OverwroteKey
    /\ lastOp.op = "project_window_op"
    /\ ~CompileRaises(expr)
    /\ SeqOfSet(Survivors(expr)) \notin RowOrders(expr, "order_by")

\* C9: every call leaves its receiver as it was: the receiver object after the
\* call equals the expression the call was made on.
C9_ReceiverUnchanged == [][recv' = expr]_vars

\* C9 witness: insert_column changed the builder's column list and the
\* receiver is as before
C9_Witness ==
    /\ lastOp.op = "insert_column"
    /\ recv = prev
    /\ Len(expr.columns) = Len(prev.columns) + 1

\* value names distinct, meta names distinct, no name in both
NamesUnique(self) ==
    /\ Distinct(NameSeq(self.columns))
    /\ Distinct(NameSeq(self.meta_columns))
    /\ column_names(self) \cap meta_column_names(self) = {}

\* the calls that change the columns, and order_by, which gives the starting
\* expression the ordering keys the hide path acts on
ColumnCalls ==
    {"insert_column", "promote_offsets", "project_unary_op", "project_binary_op",
     "project_window_op", "drop_columns", "projection", "order_by"}

\* C10 (as stated): after any sequence of (order_by,) insert_column, promote_offsets,
\* project_unary_op, project_binary_op, project_window_op, drop_columns and
\* projection calls the value names are distinct, the meta names are distinct
\* and no name is both.
C10_NamesUniqueAnyNames == OnlyCalls(ColumnCalls) => NamesUnique(expr)

\* C10 (amended): the same, when no call was given an output name that was
\* already the name of another column of its receiver.
C10_NamesUniqueFreshNames == (fresh /\ OnlyCalls(ColumnCalls)) => NamesUnique(expr)

\* C10 witness: an ordering column was hidden and a column was added, all
\* names unused before
C10_Witness ==
    /\ fresh
    /\ OnlyCalls(ColumnCalls)
    /\ Len(hist) = MaxOps
    /\ Len(expr.meta_columns) >= 2
    /\ "idx" \in column_names(expr)

-----------------------------------------------------------------------------

\* the table to_ibis_expr("unordered") gives is the value columns of the
\* expression, in their order, on the rows that pass the filters
UnorderedIsValueColumns(self) ==
    \A perm \in RowOrders(self, "unordered") :
        LET t == to_ibis_expr(self, "unordered", ORDER_ID_COLUMN, perm)
        IN  /\ NameSeq(t.cols) = NameSeq(self.columns)
            /\ \A k \in 1..Len(t.cols) :
                  t.cols[k] = Pick(self.columns[k], SeqOfSet(Survivors(self)))
            /\ PREDICATE_COLUMN \notin NameSet(t.cols)
            /\ \A m \in meta_column_names(self) \ column_names(self) :
                  m \notin NameSet(t.cols)

\* C11: compiling any expression under unordered mode gives a table whose
\* columns are exactly the value columns: no meta column, no ordering id column
\* and no predicate column is in the output, whatever hide, filter and order_by
\* calls came before.
C11_UnorderedOnlyValueColumns ==
    ~to_ibis_expr_raises(expr, "unordered", ORDER_ID_COLUMN)
        => UnorderedIsValueColumns(expr)

\* C11 witness: an expression with a hidden ordering column and an ordering id
\* among its meta columns and a filter that removes a row compiles under
\* unordered mode
C11_Witness ==
    /\ ~to_ibis_expr_raises(expr, "unordered", ORDER_ID_COLUMN)
    /\ Len(hidden_ordering_columns(expr)) > 0
    /\ expr.ordering.ordering_id \in meta_column_names(expr)
    /\ Len(expr.meta_columns) >= 2
    /\ Len(expr.predicates) > 0
    /\ Survivors(expr) # BaseRows(expr)
    /\ Len(expr.columns) >= 1

-----------------------------------------------------------------------------

\* the last call was project_window_op, its arguments are in args
WindowCalled ==
    /\ lastOp.op = "project_window_op"
    /\ Len(args) = 1

\* position of row i among the rows of the receiver that pass its filters, in
\* the order the window walked the rows
SurvivorPos(i) ==
    Cardinality({j \in Survivors(prev) : PosIn(lastOp.perm, j) < PosIn(lastOp.perm, i)})

\* C12: project_window_op with min_periods = m > 0 gives null on every row
\* whose window holds fewer than m non-null inputs, whatever the operator
\* returns there; on a cumulative window the first m - 1 rows are null (the
\* first two of five for m = 3); with min_periods = 0 the output is the
\* operator's value, masked only where a null-skipping operator has a null
\* input.
C12_MinPeriodsMasks ==
    WindowCalled =>
        LET call == args[1]
            m == call.window_spec.min_periods
            input == get_column(prev, call.column_name)
            window == _ibis_window_from_spec(prev, call.window_spec)
            out == get_column(expr, lastOp.name)
        IN  \A r \in 1..expr.table.nrows :
                LET i == RowMap[r]
                    nonnull == {j \in WindowFrame(prev, window, i, lastOp.perm) :
                                   input.vals[j] # NULL}
                IN  /\ (m > 0 /\ Cardinality(nonnull) < m) => out.vals[r] = NULL
                    /\ (/\ m > 0
                        /\ call.window_spec = CumulativeSpec
                        /\ i \in Survivors(prev)
                        /\ SurvivorPos(i) < m - 1) => out.vals[r] = NULL
                    /\ m = 0 =>
                          out.vals[r] =
                              IF skips_nulls(call.op) /\ input.vals[i] = NULL THEN NULL
                              ELSE WindowVal(prev, call.op, input, window, i, lastOp.perm)

\* C12 witness: a count over a cumulative window with min_periods = 3 on five
\* unfiltered rows without a null: the first two outputs are null although the
\* count there is 1 and 2, the others are the counts
C12_Witness ==
    /\ WindowCalled
    /\ args[1].window_spec = CumulativeSpec
    /\ args[1].op = "count"
    /\ prev.table.nrows = WindowRows
    /\ Len(prev.predicates) = 0
    /\ get_column(expr, lastOp.name).vals = <<NULL, NULL, 3, 4, 5>>

-----------------------------------------------------------------------------

\* the last call was aggregate by column b, its dropna argument is in args
AggregateCalled ==
    /\ lastOp.op = "aggregate"
    /\ lastOp.cols = {"b"}
    /\ Len(args) = 1

\* the group keys among the rows of the receiver that pass its filters
KeysOfReceiver == {get_column(prev, "b").vals[i] : i \in Survivors(prev)}

\* C13: aggregate returns, for dropna true and false alike, a sequential
\* expression whose offsets are 0..G-1 over its G groups, ascending with the
\* group key; the groups are the keys of the receiver's rows, one row each,
\* without the null key when dropna is true.
C13_AggregateSequentialByKey ==
    AggregateCalled =>
        LET G == expr.table.nrows
            keys == get_column(expr, "b").vals
            offs == _get_meta_column(expr, expr.ordering.ordering_id).vals
        IN  /\ expr.ordering.is_sequential
            /\ expr.ordering.ordering_id \in meta_column_names(expr)
            /\ Len(expr.predicates) = 0
            /\ Len(offs) = G
            /\ {offs[r] : r \in 1..G} = 0..(G - 1)
            /\ \A r, q \in 1..G :
                  (keys[r] # NULL /\ keys[q] # NULL /\ keys[r] < keys[q])
                      => offs[r] < offs[q]
            /\ {keys[r] : r \in 1..G}
                  = IF args[1].dropna THEN KeysOfReceiver \ {NULL} ELSE KeysOfReceiver
            /\ \A r, q \in 1..G : keys[r] = keys[q] => r = q
            /\ ~CompileRaises(expr)
            /\ \A p \in RowOrders(expr, "order_by") :
                  [k \in 1..Len(p) |-> offs[p[k]]] = Offsets(G)

\* C13 witness: dropna is true, the receiver has rows with a null key and rows
\* of two other groups
C13_Witness ==
    /\ AggregateCalled
    /\ args[1].dropna
    /\ NULL \in KeysOfReceiver
    /\ expr.table.nrows >= 2
    /\ expr.ordering.is_sequential

-----------------------------------------------------------------------------

\* the last call was apply_limit, its max_results argument is in args
LimitCalled ==
    /\ lastOp.op = "apply_limit"
    /\ Len(args) = 1

\* C14: apply_limit(n) returns an expression with no ordering keys, no
\* ordering id, is_sequential false, no predicates and no meta columns, whose
\* value columns are the columns of the default (order_by) compile of the
\* receiver, cut to its first n rows.
C14_LimitIsFresh ==
    LimitCalled =>
        LET compiled == to_ibis_expr(prev, "order_by", ORDER_ID_COLUMN, lastOp.perm)
            n == Min2(args[1].max_results, compiled.nrows)
        IN  /\ lastOp.perm \in RowOrders(prev, "order_by")
            /\ expr.ordering.ordering_value_columns = <<>>
            /\ expr.ordering.ordering_id = NoneId
            /\ ~expr.ordering.is_sequential
            /\ ~order_id_defined(expr.ordering)
            /\ expr.predicates = <<>>
            /\ expr.meta_columns = <<>>
            /\ NameSeq(expr.columns) = NameSeq(compiled.cols)
            /\ NameSeq(expr.columns) = NameSeq(prev.columns)
            /\ expr.table.nrows = n
            /\ \A k \in 1..Len(expr.columns) :
                  expr.columns[k].vals = SubSeq(compiled.cols[k].vals, 1, n)

\* C14 witness: the receiver had ordering keys over a hidden column, an
\* ordering id and a filter, and the limit cut rows off
C14_Witness ==
    /\ LimitCalled
    /\ Len(prev.ordering.ordering_value_columns) > 0
    /\ Len(hidden_ordering_columns(prev)) >= 2
    /\ prev.ordering.ordering_id # NoneId
    /\ Len(prev.meta_columns) > 0
    /\ expr.table.nrows = args[1].max_results
    /\ expr.table.nrows < Cardinality(Survivors(prev))
    /\ Len(expr.columns) >= 1

-----------------------------------------------------------------------------

\* the calls that name a column of the Block's expression
BlockColumnOps ==
    {"Block.apply_unary_op", "Block.project_binary_op", "Block.apply_window_op",
     "Block.filter"}

\* the expressions the Blocks hold, Block by Block
HeldExprs(bs, hp) == [k \in DOMAIN bs |-> ExprOf(bs, hp, k)]

\* this step is a call that names a column that is no value column of the
\* expression of the Block it is made on
NamesAbsentColumn ==
    /\ lastOp'.op \in BlockColumnOps
    /\ ~(args'[1].columns \subseteq column_names(ExprOf(blocks, heap, args'[1].block)))

BlockInPlaceOps == BlockColumnOps \cup {"Block.replace_value_columns"}

NestedMethods == {"add", "get", "remove", "prepare", "join"}

\* the names of a call that are not registered when it is made
Unregistered == lastOp'.cols \ Registered(handlers)

\* what every call of add, get, remove and prepare does with the registry
RegistryRules ==
    /\ Distinct([k \in 1..Len(handlers') |-> handlers'[k].name])
    /\ lastOp'.op = "add" =>
          \A name \in lastOp'.cols :
              IF name \in Registered(handlers)
              THEN /\ args'[1].raised = "ValueError"
                   /\ handlers' = handlers
              ELSE /\ args'[1].raised = ""
                   /\ name \in Registered(handlers')
                   /\ HandlerOf(handlers', name) = args'[1].value
    /\ (lastOp'.op \in {"get", "remove", "prepare"} /\ Unregistered # {}) =>
          /\ args'[1].raised = "KeyError"
          /\ handlers' = handlers
    /\ (lastOp'.op = "remove" /\ Unregistered = {}) =>
          Registered(handlers') = Registered(handlers) \ lastOp'.cols

\* join reaches the lookup of its names: the call has tables and either
\* conditions or how = "cross", and no list of fields stands before the first
\* name that is not registered
JoinLooksUp ==
    LET tables == args'[1].extra.tables
        first == CHOOSE k \in 1..Len(tables) :
                     /\ tables[k].spec.kind = "str"
                     /\ tables[k].spec.name \notin Registered(handlers)
                     /\ \A j \in 1..(k - 1) :
                            tables[j].spec.kind = "str" =>
                                tables[j].spec.name \in Registered(handlers)
    IN  /\ args'[1].extra.on # <<>> \/ args'[1].extra.how = "cross"
        /\ \A j \in 1..(first - 1) : tables[j].spec.kind = "str"

C17_JoinKeyError ==
    /\ hist = <<"add", "join">>
    /\ Registered(handlers) = {"customers"}
    /\ lastOp.cols = {"customers", "orders"}
    /\ args[1].extra.on # <<>>
    /\ args[1].raised = "KeyError"

\* the names prepare was called with that are registered
PreparedNames == lastOp'.cols \cap Registered(handlers)

\* C18: prepare(name, fields) leaves the registered handler as it was: its
\* original DataFrame, original_columns and extracted_fields are the same
\* after the call, whether it returns a flattened DataFrame or raises; when a
\* requested path is no discovered nested field it raises ValueError and
\* nothing is extracted.
C18_PrepareKeepsHandler ==
    [][lastOp'.op = "prepare" =>
          /\ Registered(handlers') = Registered(handlers)
          /\ \A name \in Registered(handlers) :
                /\ HandlerOf(handlers', name).original_df
                      = HandlerOf(handlers, name).original_df
                /\ original_columns(HandlerOf(handlers', name))
                      = original_columns(HandlerOf(handlers, name))
                /\ extracted_fields(HandlerOf(handlers', name))
                      = extracted_fields(HandlerOf(handlers, name))
          /\ \A name \in PreparedNames :
                (/\ args'[1].extra # NoFields
                 /\ \E k \in 1..Len(args'[1].extra) :
                       args'[1].extra[k] \notin ExtractedPaths(HandlerOf(handlers, name)))
                => /\ args'[1].raised = "ValueError"
                   /\ args'[1].value = <<>>]_vars

\* C18 witness: prepare of the nested DataFrame with one of its fields gave
\* the flat column and that field, and the handler still has the nested
\* DataFrame and both discovered fields
C18_Witness ==
    /\ hist = <<"add", "prepare">>
    /\ lastOp.cols = {"customers"}
    /\ args[1].extra = <<"profile.name">>
    /\ args[1].raised = ""
    /\ NameSeq(args[1].value.columns) = <<"customer_id", "profile_name">>
    /\ HandlerOf(handlers, "customers").original_df = CustomersDf
    /\ Len(extracted_fields(HandlerOf(handlers, "customers"))) = 2

\* the compile reaches "Expression does not have ordering id and none was
\* generated": no row number is generated and there is no ordering id
NoOrderingIdBranch(self, ordering_mode) ==
    /\ ordering_mode \in OffsetModes
    /\ ~NeedsRowNumber(self, ordering_mode)
    /\ self.ordering.ordering_id = NoneId

\* C19: in every expression reachable from a read expression, is_sequential
\* implies that the ordering id is set and names a meta column; so the compile
\* under offset_col and ordered_col never reaches the error "Expression does
\* not have ordering id and none was generated", and the offsets accessor
\* does not fail on a sequential expression.
C19_SequentialHasOrderingId ==
    /\ expr.ordering.is_sequential =>
          /\ expr.ordering.ordering_id # NoneId
          /\ expr.ordering.ordering_id \in meta_column_names(expr)
          /\ ~offsets_raises(expr)
          /\ offsets(expr).name = expr.ordering.ordering_id
    /\ \A ordering_mode \in OffsetModes : ~NoOrderingIdBranch(expr, ordering_mode)

\* C19 witness: after another call, aggregate built a new sequential
\* expression over another table, and its offsets are a meta column
C19_Witness ==
    /\ Len(hist) >= 2
    /\ lastOp.op = "aggregate"
    /\ expr.ordering.is_sequential
    /\ expr.table # prev.table
    /\ ~offsets_raises(expr)
    /\ offsets(expr).name \notin column_names(expr)

\* the ordering id values read in the current row order are 0 .. N-1
IdsDenseInRowOrder(self) ==
    /\ ~offsets_raises(self)
    /\ ~ordering_values_raises(self)
    /\ \A perm \in SortOrders(ordering_values(self), Survivors(self), backend) :
          [k \in 1..Len(perm) |-> offsets(self).vals[perm[k]]] = Offsets(Len(perm))

\* promote_offsets("idx") was called on the result of order_by
PromotedAfterOrderBy ==
    /\ PromotedIdx
    /\ Len(hist) >= 2
    /\ hist[Len(hist) - 1] = "order_by"

\* the compile of self is the compile of before with the column idx added,
\* and idx counts its rows from 0
NumbersRowsOf(self, before) ==
    /\ ~CompileRaises(self)
    /\ ~CompileRaises(before)
    /\ \A p2 \in RowOrders(self, "order_by") :
          LET t == to_ibis_expr(self, "order_by", ORDER_ID_COLUMN, p2)
          IN  /\ "idx" \in NameSet(t.cols)
              /\ DictGet(t.cols, "idx").vals = Offsets(Cardinality(Survivors(before)))
              /\ \E p1 \in RowOrders(before, "order_by") :
                    LET t1 == to_ibis_expr(before, "order_by", ORDER_ID_COLUMN, p1)
                    IN  \A c \in 1..Len(t1.cols) :
                           /\ t1.cols[c].name \in NameSet(t.cols)
                           /\ DictGet(t.cols, t1.cols[c].name).vals = t1.cols[c].vals

ConcatCalled ==
    /\ lastOp.op = "concat"
    /\ Len(args) >= 1
    /\ ~CompileRaises(prev)
    /\ \A i \in 1..Len(args) : ~CompileRaises(args[i])

\* the values of column k of the sources, each compiled alone under order_by
\* in the row orders given, one source after the other
RECURSIVE SourcesInOrder(_, _, _)
SourcesInOrder(sources, perms, k) ==
    IF sources = <<>> THEN <<>>
    ELSE to_ibis_expr(Head(sources), "order_by", ORDER_ID_COLUMN, Head(perms)).cols[k].vals
         \o SourcesInOrder(Tail(sources), Tail(perms), k)

\* the row orders of the order_by compile of each source
SourceOrders(sources) ==
    {perms \in [1..Len(sources) -> UNION {RowOrders(sources[i], "order_by") :
                                             i \in 1..Len(sources)}] :
        \A i \in 1..Len(sources) : perms[i] \in RowOrders(sources[i], "order_by")}

\* C21: for concat of any sources, a source with value keys set by order_by on
\* top of an ordering id included, the union sorted by the combined ordering
\* id has all rows of source i before all rows of source j for i < j and,
\* within each source, the row order of that source compiled alone under
\* order_by.
C21_ConcatKeepsSourceOrder ==
    ConcatCalled =>
        /\ ~CompileRaises(expr)
        /\ \A p \in RowOrders(expr, "order_by") :
              \E perms \in SourceOrders(<<prev>> \o args) :
                 \A k \in 1..Len(expr.columns) :
                    to_ibis_expr(expr, "order_by", ORDER_ID_COLUMN, p).cols[k].vals
                        = SourcesInOrder(<<prev>> \o args, perms, k)

\* the depth up to which the recursion of promote_offsets is followed
CallLimit == 4

\* promote_offsets was called on an expression that was not sequential
PromotedNotSequential ==
    /\ lastOp.op = "promote_offsets"
    /\ ~prev.ordering.is_sequential

\* C22: promote_offsets terminates on every reachable expression: on a
\* receiver that is not sequential it calls itself exactly once, on the result
\* of project_offsets, which is sequential and has an ordering id, so that the
\* retried call takes the branch without recursion; on a sequential receiver
\* it does not call itself.
C22_PromoteOffsetsTerminates ==
    ~project_offsets_raises(expr) =>
        \A perm \in OffsetOrders(expr) :
            /\ project_offsets(expr, perm).ordering.is_sequential
            /\ project_offsets(expr, perm).ordering.ordering_id # NoneId
            /\ promote_offsets_calls(expr, perm, CallLimit)
                  = (IF expr.ordering.is_sequential THEN 0 ELSE 1)

\* C22 witness: promote_offsets ran on a filtered, ordered expression, which
\* is not sequential, and returned a sequential expression with the offsets
\* as value column idx
C22_Witness ==
    /\ hist = <<"filter", "order_by", "promote_offsets">>
    /\ PromotedNotSequential
    /\ promote_offsets_calls(prev, lastOp.perm, CallLimit) = 1
    /\ expr.ordering.is_sequential
    /\ "idx" \in column_names(expr)

\* the ordering states: the expression has an ordering id; it is sequential
HasId(self) == self.ordering.ordering_id # NoneId
HasIdSequential(self) == HasId(self) /\ self.ordering.is_sequential

\* C23: filter and concat of two or more sources never return a sequential
\* expression; project_offsets and promote_offsets always return an expression
\* that has an ordering id and is sequential; drop_columns, projection,
\* insert_column and filter, called on an expression with an ordering id,
\* return one with the same ordering id, still among the meta columns if it
\* was there.
C23_OrderingStateTransitions ==
    /\ lastOp.op = "filter" => ~expr.ordering.is_sequential
    /\ (lastOp.op = "concat" /\ Len(args) >= 1) => ~expr.ordering.is_sequential
    /\ lastOp.op \in {"project_offsets", "promote_offsets"} =>
          /\ HasIdSequential(expr)
          /\ ~offsets_raises(expr)
    /\ (lastOp.op \in {"drop_columns", "projection", "insert_column", "filter"}
        /\ HasId(prev)) =>
          /\ HasId(expr)
          /\ expr.ordering.ordering_id = prev.ordering.ordering_id
          /\ prev.ordering.ordering_id \in meta_column_names(prev) =>
                /\ expr.ordering.ordering_id \in meta_column_names(expr)
                /\ _get_meta_column(expr, expr.ordering.ordering_id)
                      = _get_meta_column(prev, prev.ordering.ordering_id)

\* C23 witness: an ordered expression whose key column had been dropped, and
\* hidden among the meta columns, was filtered: the result keeps the ordering
\* id among its meta columns and is not sequential
C23_Witness ==
    /\ Len(hist) = 3
    /\ hist[2] = "drop_columns"
    /\ lastOp.op = "filter"
    /\ HasId(prev)
    /\ HasId(expr)
    /\ ~expr.ordering.is_sequential
    /\ expr.ordering.ordering_id \in meta_column_names(expr)
    /\ Len(expr.meta_columns) >= 2

\* the rows for which every predicate of the expression is true
AllTrueRows(self) ==
    {i \in BaseRows(self) : \A k \in 1..Len(self.predicates) : self.predicates[k].vals[i] = 1}

\* the compile under a mode, in a row order, holds exactly the rows in which
\* all predicates are true, and has no predicate column
CompilesFilteredRows(self, ordering_mode, perm) ==
    LET t == to_ibis_expr(self, ordering_mode, ORDER_ID_COLUMN, perm)
        rowseq == IF ordering_mode = "order_by" THEN perm ELSE SeqOfSet(AllTrueRows(self))
    IN  /\ PREDICATE_COLUMN \notin NameSet(t.cols)
        /\ t.nrows = Cardinality(AllTrueRows(self))
        /\ {rowseq[k] : k \in 1..Len(rowseq)} = AllTrueRows(self)
        /\ \A c \in 1..Len(self.columns) :
              /\ self.columns[c].name \in NameSet(t.cols)
              /\ DictGet(t.cols, self.columns[c].name).vals
                    = Pick(self.columns[c], rowseq).vals

\* C24 as stated: with predicates p1..pk, k >= 1, the compile under each of
\* the five ordering modes has exactly the rows for which p1 AND ... AND pk is
\* true and no predicate column; with k = 0 no filter column is added and no
\* row is removed.
C24_AsStated ==
    \A ordering_mode \in OrderingModes :
        ~to_ibis_expr_raises(expr, ordering_mode, ORDER_ID_COLUMN) =>
            \A perm \in RowOrders(expr, ordering_mode) :
                CompilesFilteredRows(expr, ordering_mode, perm)

\* C24 amended: for an expression with at least one value column and
\* predicates p1..pk, the compile under each of the five ordering modes has
\* exactly the rows for which p1 AND ... AND pk is true and no predicate
\* column, and with k = 0 no filter column is added and no row is removed; an
\* expression without value columns and without predicates compiles under the
\* unordered mode to the empty table, which has no rows.
C24_FilteredRowsExact ==
    \A ordering_mode \in OrderingModes :
        ~to_ibis_expr_raises(expr, ordering_mode, ORDER_ID_COLUMN) =>
            \A perm \in RowOrders(expr, ordering_mode) :
                /\ Len(expr.columns) > 0 =>
                      CompilesFilteredRows(expr, ordering_mode, perm)
                /\ (/\ Len(expr.columns) = 0
                    /\ Len(expr.predicates) = 0
                    /\ ordering_mode = "unordered") =>
                      to_ibis_expr(expr, ordering_mode, ORDER_ID_COLUMN, perm).nrows = 0

\* C24 witness: two filters are pending, they differ on some row, some row
\* passes both and some row fails, and the default compile has the passing rows
C24_Witness ==
    /\ Len(expr.predicates) = 2
    /\ Len(expr.columns) > 0
    /\ expr.predicates[1].vals # expr.predicates[2].vals
    /\ AllTrueRows(expr) # {}
    /\ AllTrueRows(expr) # BaseRows(expr)
    /\ \E i \in BaseRows(expr) : expr.predicates[2].vals[i] = 1 /\ i \notin AllTrueRows(expr)
    /\ ~CompileRaises(expr)
    /\ \A perm \in RowOrders(expr, "order_by") :
          to_ibis_expr(expr, "order_by", ORDER_ID_COLUMN, perm).nrows
              = Cardinality(AllTrueRows(expr))

\* the output names a caller asks for
OrderColNames == {ORDER_ID_COLUMN, "ord"}

\* the row orders in which a row number can be generated for the expression
GeneratedOrders(self) ==
    IF ordering_values_raises(self) THEN {SeqOfSet(Survivors(self))}
    ELSE SortOrders(ordering_values(self), Survivors(self), backend)

\* the mode has to generate a row number, as the statement has it
GeneratesRowNumber(self, ordering_mode) ==
    IF ordering_mode = "offset_col" THEN ~self.ordering.is_sequential
    ELSE self.ordering.ordering_id = NoneId

\* the ordering column of the compile is the row number of each row in the
\* order perm, or else the ordering id meta column of the rows that remain
OrderColumnAsStated(self, ordering_mode, order_col_name, perm) ==
    LET t == to_ibis_expr(self, ordering_mode, order_col_name, perm)
        rows == SeqOfSet(Survivors(self))
    IN  /\ order_col_name \in NameSet(t.cols)
        /\ t.nrows = Len(rows)
        /\ IF GeneratesRowNumber(self, ordering_mode)
           THEN \A k \in 1..Len(rows) :
                   DictGet(t.cols, order_col_name).vals[k] = PosIn(perm, rows[k]) - 1
           ELSE /\ ~_get_meta_column_raises(self, self.ordering.ordering_id)
                /\ DictGet(t.cols, order_col_name)
                      = Rename(Pick(_get_meta_column(self, self.ordering.ordering_id), rows),
                               order_col_name)

\* C25: the compile under offset_col generates a new row-number column
\* exactly when is_sequential is false, the compile under ordered_col exactly
\* when no ordering id is defined; in every other case the ordering id meta
\* column is emitted unchanged under the requested output name.
C25_RowNumberOnlyWhenNeeded ==
    \A ordering_mode \in OffsetModes, order_col_name \in OrderColNames :
        ~to_ibis_expr_raises(expr, ordering_mode, order_col_name) =>
            \A perm \in GeneratedOrders(expr) :
                OrderColumnAsStated(expr, ordering_mode, order_col_name, perm)

\* C25 witness: an expression with an ordering id, a filter that removes a
\* row and order_by keys that reverse the rows is not sequential: offset_col
\* numbers the rows that remain from 0 in the new order, ordered_col emits
\* their old ids, which have a gap
C25_Witness ==
    /\ hist = <<"filter", "order_by">>
    /\ expr.ordering.ordering_id # NoneId
    /\ ~expr.ordering.is_sequential
    /\ expr.ordering.ordering_value_columns # <<>>
    /\ Survivors(expr) = {1, 3}
    /\ ~to_ibis_expr_raises(expr, "offset_col", "ord")
    /\ ~to_ibis_expr_raises(expr, "ordered_col", "ord")
    /\ \A perm \in GeneratedOrders(expr) :
          /\ DictGet(to_ibis_expr(expr, "offset_col", "ord", perm).cols, "ord").vals
                = <<1, 0>>
          /\ DictGet(to_ibis_expr(expr, "ordered_col", "ord", perm).cols, "ord").vals
                = <<0, 2>>

\* the value keys of the ordering, as sort keys over the columns of the expression
ValueSortKeys(self) ==
    _convert_ordering_to_table_values(self.columns \o self.meta_columns,
                                      self.ordering.ordering_value_columns)

\* rows i and j are tied on every value key
TiedOnValueKeys(self, i, j) ==
    /\ ~Before(ValueSortKeys(self), i, j, backend)
    /\ ~Before(ValueSortKeys(self), j, i, backend)

\* the row order perm is sorted by the value keys and, among rows tied on
\* them, by the ordering id
SortedByFullOrdering(self, perm) ==
    \A x, y \in 1..Len(perm) :
        x < y =>
            /\ ~Before(ValueSortKeys(self), perm[y], perm[x], backend)
            /\ (HasId(self) /\ TiedOnValueKeys(self, perm[x], perm[y])) =>
                  NativeCmp(_get_meta_column(self, self.ordering.ordering_id),
                            perm[x], perm[y], backend) <= 0

\* C26: the compile under order_by is a table whose columns are exactly the
\* value columns in their order: the hidden value keys and the ordering id are
\* used for the sort only and are not in the output, and the rows are sorted by
\* the full ordering key list, value keys first and the ordering id last.
C26_OrderByCompile ==
    ~CompileRaises(expr) =>
        \A perm \in RowOrders(expr, "order_by") :
            LET t == to_ibis_expr(expr, "order_by", ORDER_ID_COLUMN, perm)
            IN  /\ NameSeq(t.cols) = NameSeq(expr.columns)
                /\ \A k \in 1..Len(t.cols) : t.cols[k] = Pick(expr.columns[k], perm)
                /\ \A k \in 1..Len(hidden_ordering_columns(expr)) :
                      hidden_ordering_columns(expr)[k] \notin NameSet(t.cols)
                /\ {perm[k] : k \in 1..Len(perm)} = Survivors(expr)
                /\ SortedByFullOrdering(expr, perm)

\* C26 witness: the value key was dropped and hidden, two rows are tied on
\* it so that the ordering id decides, and the row order of the compile is
\* not the order of the table
C26_Witness ==
    /\ hist = <<"order_by", "drop_columns">>
    /\ Len(expr.ordering.ordering_value_columns) = 1
    /\ Len(hidden_ordering_columns(expr)) = 2
    /\ Len(expr.columns) = 1
    /\ ~CompileRaises(expr)
    /\ \E i, j \in Survivors(expr) : i # j /\ TiedOnValueKeys(expr, i, j)
    /\ \A perm \in RowOrders(expr, "order_by") :
          /\ perm # SeqOfSet(Survivors(expr))
          /\ NameSeq(to_ibis_expr(expr, "order_by", ORDER_ID_COLUMN, perm).cols)
                = NameSeq(expr.columns)

\* concat was called with at least one other source
ConcatOfMany ==
    /\ lastOp.op = "concat"
    /\ Len(args) >= 1

\* the number of rows the sources before source i (one-based) give to the union
RECURSIVE RowsBefore(_, _)
RowsBefore(sources, i) ==
    IF i <= 1 THEN 0
    ELSE RowsBefore(sources, i - 1) + Cardinality(Survivors(sources[i - 1]))

\* the prefix concat gives to the source with zero-based index i
SourcePrefix(i, width) == ZFill(Digits(i), width)

\* C27: for concat of k >= 2 sources, receiver included, the width of the
\* zero-padded source-index prefix is at least the number of decimal digits of
\* the largest source index k - 1, so every source gets a prefix of that same
\* width, and comparing prefixes as strings agrees with comparing source
\* indexes as numbers.
C27_PrefixWideEnough ==
    ConcatOfMany =>
        LET sources == <<prev>> \o args
            k == Len(sources)
            width == PrefixSize(args)
            ids == offsets(expr).vals
        IN  /\ width >= Len(Digits(k - 1))
            /\ \A i \in 0..(k - 1) : Len(SourcePrefix(i, width)) = width
            /\ \A i, j \in 0..(k - 1) :
                  (i < j) <=> StrLess(SourcePrefix(i, width), SourcePrefix(j, width))
            /\ \A i \in 1..k :
                  \A r \in (RowsBefore(sources, i) + 1)..RowsBefore(sources, i + 1) :
                      SubSeq(ids[r], 1, width) = SourcePrefix(i - 1, width)

\* C27 witness: concat of twelve sources, whose largest index 11 has two
\* digits, gave the last source the prefix 11 and the receiver the prefix 00
C27_Witness ==
    /\ ConcatOfMany
    /\ Len(args) = 11
    /\ PrefixSize(args) = 2
    /\ SubSeq(offsets(expr).vals[1], 1, 2) = <<0, 0>>
    /\ SubSeq(offsets(expr).vals[expr.table.nrows], 1, 2) = <<1, 1>>

\* the encoding width an expression records
EncodingWidth(self) == self.ordering.ordering_encoding_size

\* C28: the expression returned by concat of two or more sources records an
\* encoding width equal to the prefix width plus the largest encoding width of
\* the sources, receiver included; it is strictly greater than the encoding
\* width of every source, also when a source is the result of an earlier concat.
C28_EncodingWidthGrows ==
    ConcatOfMany =>
        LET sources == <<prev>> \o args
        IN  /\ \E m \in 1..Len(sources) :
                  /\ \A i \in 1..Len(sources) :
                        EncodingWidth(sources[i]) <= EncodingWidth(sources[m])
                  /\ EncodingWidth(expr) = PrefixSize(args) + EncodingWidth(sources[m])
            /\ \A i \in 1..Len(sources) : EncodingWidth(expr) > EncodingWidth(sources[i])

\* C28 witness: the receiver came from project_offsets and has the default
\* width, the last of the other sources is the result of an earlier concat
\* and is wider, and the result is wider than that source by the prefix
C28_Witness ==
    /\ hist = <<"concat", "project_offsets", "concat">>
    /\ ConcatOfMany
    /\ EncodingWidth(prev) = DefaultEncodingSize
    /\ EncodingWidth(args[Len(args)]) > DefaultEncodingSize
    /\ EncodingWidth(expr) = PrefixSize(args) + EncodingWidth(args[Len(args)])

-----------------------------------------------------------------------------
(* C29 : reprojection after a window operation *)

\* the result of the last project_window_op call before any reprojection
Unreprojected ==
    project_window_op(prev, args[1].column_name, args[1].op, args[1].window_spec,
                      lastOp.name, TRUE, lastOp.perm,
                      guid - SetOrReplaceGuids(prev, lastOp.name))

\* C29: project_window_op with skip_reproject_unsafe = false returns an
\* expression over a new table handle holding the rows that pass the pending
\* filters, with the value-column names, the meta-column names and the
\* ordering of the un-reprojected result and with no predicate left; with
\* skip_reproject_unsafe = true the result keeps the receiver's table handle
\* and predicates.
C29_ReprojectEffect ==
    WindowCalled =>
        IF args[1].skip_reproject_unsafe
        THEN /\ expr = Unreprojected
             /\ expr.table = prev.table
             /\ expr.predicates = prev.predicates
        ELSE /\ expr.table # prev.table
             /\ expr.table.gen # prev.table.gen
             /\ expr.table.nrows = Cardinality(Survivors(prev))
             /\ NameSeq(expr.columns) = NameSeq(Unreprojected.columns)
             /\ NameSeq(expr.meta_columns) = NameSeq(Unreprojected.meta_columns)
             /\ expr.ordering = Unreprojected.ordering
             /\ expr.predicates = <<>>
             /\ \A k \in 1..Len(expr.columns) :
                    expr.columns[k].vals =
                        Pick(Unreprojected.columns[k], SeqOfSet(Survivors(prev))).vals

\* C29 witness: a window operation with reprojection on a receiver whose
\* pending filter removes some but not all of its rows: the result has no
\* predicate and a table of the passing rows only
C29_Witness ==
    /\ WindowCalled
    /\ ~args[1].skip_reproject_unsafe
    /\ prev.predicates # <<>>
    /\ Survivors(prev) # {}
    /\ Cardinality(Survivors(prev)) < prev.table.nrows
    /\ expr.predicates = <<>>
    /\ expr.table.nrows = Cardinality(Survivors(prev))
    /\ expr.table.gen # prev.table.gen

-----------------------------------------------------------------------------
(* C30 : rows that fail the pending predicates *)

AlterVals == {NULL, 9}

\* the rows of an expression that fail its pending predicates
FailingRows(self) == BaseRows(self) \ Survivors(self)

SetRowIn(cols, names, f, v) ==
    [k \in 1..Len(cols) |->
        IF cols[k].name \in names THEN [cols[k] EXCEPT !.vals[f] = v] ELSE cols[k]]

DropRowIn(cols, f) ==
    [k \in 1..Len(cols) |->
        [cols[k] EXCEPT !.vals = SubSeq(@, 1, f - 1) \o SubSeq(@, f + 1, Len(@))]]

\* the same expression with value v in the columns `names` of row f, whose
\* predicates all evaluate to w (false or null) on that row
AlterRow(self, f, names, v, w) ==
    BigFramesExpr(Table(self.table.nrows, SetRowIn(self.table.cols, names, f, v),
                        self.table.gen),
                  SetRowIn(self.columns, names, f, v),
                  SetRowIn(self.meta_columns, names, f, v),
                  self.ordering,
                  SetRowIn(self.predicates, NameSet(self.predicates), f, w))

\* the same expression over a table without row f
RemoveRow(self, f) ==
    BigFramesExpr(Table(self.table.nrows - 1, DropRowIn(self.table.cols, f), self.table.gen),
                  DropRowIn(self.columns, f), DropRowIn(self.meta_columns, f),
                  self.ordering, DropRowIn(self.predicates, f))

\* every expression that differs from self in one row that fails the predicates
AlteredFailing(self) ==
    LET names == column_names(self) \cup meta_column_names(self)
    IN  UNION {{RemoveRow(self, f)} \cup
               {AlterRow(self, f, N, v, IF v = NULL THEN NULL ELSE 0) :
                    N \in {names} \cup {{n} : n \in names}, v \in AlterVals}
               : f \in FailingRows(self)}

\* the window results a backend may give on the rows that pass the predicates
WindowOnPassing(self, call, output_name) ==
    {Pick(get_column(project_window_op(self, call.column_name, call.op, call.window_spec,
                                       output_name, TRUE, perm, 0), output_name),
          SeqOfSet(Survivors(self))).vals :
        perm \in WindowOrders(self, call.window_spec)}

\* the tables with generated offsets a backend may give
OffsetsOnPassing(self, ordering_mode) ==
    {to_ibis_expr(self, ordering_mode, ORDER_ID_COLUMN, perm) :
        perm \in RowOrders(self, ordering_mode)}

\* C30: on an expression with pending predicates, changing the values of a
\* row that fails the predicates, or removing that row, changes neither the
\* window result of project_window_op nor the offsets that project_offsets
\* (offset_col) and a compile under ordered_col generate on the rows that pass.
C30_FailingRowsDoNotInterfere ==
    /\ (WindowCalled /\ prev.predicates # <<>>) =>
          LET passing == IF args[1].skip_reproject_unsafe
                         THEN Pick(get_column(expr, lastOp.name),
                                   SeqOfSet(Survivors(prev))).vals
                         ELSE get_column(expr, lastOp.name).vals
          IN  /\ passing \in WindowOnPassing(prev, args[1], lastOp.name)
              /\ \A other \in AlteredFailing(prev) :
                    WindowOnPassing(other, args[1], lastOp.name)
                        = WindowOnPassing(prev, args[1], lastOp.name)
    /\ (lastOp.op = "project_offsets" /\ prev.predicates # <<>>) =>
          /\ expr.table \in OffsetsOnPassing(prev, "offset_col")
          /\ \A other \in AlteredFailing(prev) :
                /\ ~project_offsets_raises(other)
                /\ {project_offsets(other, perm) : perm \in OffsetOrders(other)}
                      = {project_offsets(prev, perm) : perm \in OffsetOrders(prev)}
    /\ (/\ expr.predicates # <<>>
        /\ NeedsRowNumber(expr, "ordered_col")
        /\ ~to_ibis_expr_raises(expr, "ordered_col", ORDER_ID_COLUMN)) =>
          \A other \in AlteredFailing(expr) :
              /\ NeedsRowNumber(other, "ordered_col")
              /\ ~to_ibis_expr_raises(other, "ordered_col", ORDER_ID_COLUMN)
              /\ OffsetsOnPassing(other, "ordered_col") = OffsetsOnPassing(expr, "ordered_col")

\* C30 witness: an unbounded sum over the five rows 5, null, 3, 2, 1 of which
\* only two pass the filter b > 1: the sum on the passing rows is 4, not the 11
\* of the whole table, and the receiver has rows that fail the filter
C30_Witness ==
    /\ WindowCalled
    /\ args[1].op = "sum"
    /\ args[1].window_spec = WindowSpec(<<>>, <<>>, NoBound, NoBound, 0)
    /\ args[1].skip_reproject_unsafe
    /\ Len(prev.predicates) = 1
    /\ get_column(prev, "a").vals = <<5, NULL, 3, 2, 1>>
    /\ FailingRows(prev) # {}
    /\ Survivors(prev) # {}
    /\ Survivors(prev) = {3, 5}
    /\ \A i \in Survivors(prev) : get_column(expr, lastOp.name).vals[i] = 4

====
